---- MODULE Spec2Model ----
(***************************************************************************)
(* A model of qollage's circuit layout engine (roqollage/src/interface.rs, *)
(* roqollage/src/backend.rs) and of its gate-cancellation pass             *)
(* (qollage/src/backend.rs).                                               *)
(*                                                                         *)
(* A track is a sequence of cells; the three domains are sequences of      *)
(* tracks.  Rust indices are 0-based: track q of a domain v is v[q + 1].   *)
(* A cell is the string the code pushes, kept as the record of the parts   *)
(* that string is formatted from.                                          *)
(***************************************************************************)
EXTENDS Integers, Sequences, FiniteSets, TLC

VARIABLES
    circuit_gates,    \* Vec<Vec<String>>: the qubit tracks
    bosonic_gates,    \* Vec<Vec<String>>: the bosonic mode tracks
    classical_gates,  \* Vec<Vec<String>>: the classical register tracks
    circuit_lock,     \* Vec<(usize, usize)>: reserved (qubit track, column)
    bosonic_lock,     \* Vec<(usize, usize)>: reserved (mode track, column)
    classical_lock,   \* Vec<(usize, usize)>: reserved (register track, column)
    status,           \* the driver's position: "placing", "done" or "error" ("idle": not run)
    placed,           \* the operations of the circuit handed to add_gate so far
    typst_str,        \* the tracks the driver emits (empty until it returns Ok)
    error,            \* the Err the driver returned (Ok while it returned none)
    family,           \* the operation set the circuit is drawn from and render_pragmas
    circuit,          \* remove_identities: the circuit of the current round
    position,         \* remove_identities: index of the next operation of the round
    last_gates,       \* remove_identities: the entries [key, val] of the HashMap
                      \*   <(usize, usize), Option<(String, Operation)>>, val <<>> for None
    new_circuit,      \* remove_identities: the circuit built by the current round
    input,            \* remove_identities: the circuit the caller passed
    phase,            \* remove_identities: "iter", "compare" or "done" ("idle": not run)
    returned,         \* remove_identities: the circuits returned to the caller so far
    gate,             \* replace_*_index: the cell being resolved
    n_qubits,         \* replace_*_index: number of qubit tracks
    n_bosons,         \* replace_*_index: number of bosonic tracks
    n_classical,      \* replace_*_index: number of classical tracks
    resolved,         \* replace_*_index: <<the cell returned>>, <<>> before the call
    callee,           \* flatten: "flatten_qubits" or "flatten_multiple_vec" ("idle": not run)
    flat_1,           \* flatten: circuit_gates / gate_vec_1
    flat_2,           \* flatten: gate_vec_2 (a second domain, not an argument of flatten_qubits)
    ind_1,            \* flatten: qubits / vec_1_ind
    ind_2,            \* flatten: vec_2_ind
    flat_max_len,     \* flatten: the local max_len
    flat_pc,          \* flatten: "call", "while" or "done"
    rounds,           \* flatten: iterations of the while loop in the current call
    calls,            \* flatten: calls that returned
    before            \* flatten: <<flat_1, flat_2>> when the current call was made

layout_vars == <<circuit_gates, bosonic_gates, classical_gates,
                 circuit_lock, bosonic_lock, classical_lock, status, placed,
                 typst_str, error, family>>
cancel_vars == <<circuit, position, last_gates, new_circuit, input, phase,
                 returned>>
resolve_vars == <<gate, n_qubits, n_bosons, n_classical, resolved>>
flatten_vars == <<callee, flat_1, flat_2, ind_1, ind_2, flat_max_len, flat_pc,
                  rounds, calls, before>>
vars == <<layout_vars, cancel_vars, resolve_vars, flatten_vars>>

(***************************************************************************)
(* Small helpers on numbers and sequences.                                 *)
(***************************************************************************)
Max(S) == IF S = {} THEN 0 ELSE CHOOSE x \in S : \A y \in S : y <= x
Min(S) == IF S = {} THEN 0 ELSE CHOOSE x \in S : \A y \in S : x <= y
Range(f) == {f[i] : i \in DOMAIN f}

\* The sequence lo, lo+1, ..., hi-1 (a Rust range lo..hi).
RangeSeq(lo, hi) == [i \in 1..(IF hi > lo THEN hi - lo ELSE 0) |-> lo + i - 1]

\* usize::to_string as a sequence of decimal digits.
RECURSIVE Digits(_)
Digits(n) == IF n < 10 THEN <<n>> ELSE Append(Digits(n \div 10), n % 10)

\* The number a sequence of decimal digits denotes.
RECURSIVE NumberOf(_)
NumberOf(d) ==
    IF d = <<>> THEN 0 ELSE 10 * NumberOf(SubSeq(d, 1, Len(d) - 1)) + d[Len(d)]

IsPrefix(p, s) == Len(p) <= Len(s) /\ SubSeq(s, 1, Len(p)) = p

(***************************************************************************)
(* Cells.  k is the typst function the string starts with ("1" is the      *)
(* filler), lbl the fixed label of the format string, txt the text the     *)
(* operation's parameters put into it, n its integer argument and ref the  *)
(* deferred reference it carries: tok "none", "replace_by_len",            *)
(* "replace_by_n_qubits_plus_", "replace_by_classical_len_" (d the digits  *)
(* of the index written after the token) or "value" (d the digits that     *)
(* replaced a token).                                                      *)
(***************************************************************************)
NoRef == [tok |-> "none", d |-> <<>>]
LenRef == [tok |-> "replace_by_len", d |-> <<>>]
BosonRef(m) == [tok |-> "replace_by_n_qubits_plus_", d |-> Digits(m)]
ClassicalRef(i) == [tok |-> "replace_by_classical_len_", d |-> Digits(i)]
ValueRef(d) == [tok |-> "value", d |-> d]

Cell(k, lbl, txt, n, ref) == [k |-> k, lbl |-> lbl, txt |-> txt, n |-> n, ref |-> ref]

Filler == Cell("1", "", "", 0, NoRef)

\* The qubit-track cell of a hybrid gate on qubit q and mode m, and the meter
\* of a measurement of qubit q into the register on classical track index.
HybridCell(q, m) == Cell("mqgate", "QuantumRabi", "", q, BosonRef(m))
MeterCell(q, index) == Cell("meter", "", "", q, ClassicalRef(index))

\* The marker words effective_len and prepare_for_slice search a cell for.
Markers == {"slice", "gategroup", "lstick", "setwire"}

\* The marker words that occur in a text an operation carries.
MarkersIn(txt) == IF txt = "slice_t" THEN {"slice"} ELSE {}

\* String::contains(word) for a marker word: the format string of the cell's
\* kind starts with the word, or the text formatted into it holds it.
Contains(cell, word) == cell.k = word \/ word \in MarkersIn(cell.txt)

\* str::contains between the names that operations carry: the text holds the
\* name when it is the name or the name is a part of it.
StrContains(text, name) == text = name \/ <<text, name>> \in {<<"ro2", "ro">>}

\* Number of characters of a text an operation carries.
TextChars(txt) ==
    CASE txt = "" -> 0
      [] txt = "ro" -> 2
      [] txt \in {"1", "2"} -> 1
      [] txt = "theta" -> 5
      [] txt = "slice_t" -> 7
      [] OTHER -> 3

\* Number of characters of the deferred reference as written in the string.
RefChars(ref) ==
    CASE ref.tok = "none" -> 0
      [] ref.tok = "value" -> Len(ref.d)
      [] ref.tok = "replace_by_len" -> 14
      [] ref.tok = "replace_by_n_qubits_plus_" -> 25 + Len(ref.d)
      [] ref.tok = "replace_by_classical_len_" -> 25 + Len(ref.d)

\* Characters of the format string without its arguments, for the last line
\* of the string (the line prepare_for_slice measures).
TemplateChars(cell) ==
    CASE cell.k = "slice" /\ cell.lbl = "GlobalPhase" -> 35
      [] cell.k = "slice" /\ cell.lbl = "Measurements" -> 6
      [] cell.k = "gategroup" /\ cell.lbl = "Loop" -> 63
      [] cell.k = "gategroup" /\ cell.lbl = "Conditional" -> 67  \* one-digit index
      [] cell.k = "gategroup" /\ cell.lbl = "GetStateVector" -> 67
      [] cell.k = "gategroup" /\ cell.lbl = "Repeat" -> 64
      [] cell.k = "gategroup" /\ cell.lbl = "Annotated" -> 51
      [] cell.k = "gate" /\ cell.lbl = "Rx" -> 16
      [] OTHER -> 10

\* last_slice.split('\n').last().chars().count()
LastLineChars(cell) ==
    TemplateChars(cell) + TextChars(cell.txt) + RefChars(cell.ref)
    + (IF cell.k = "gategroup" THEN Len(Digits(cell.n)) ELSE 0)

(***************************************************************************)
(* Track model and column synchronizer.                                    *)
(***************************************************************************)
Track(gates, i) == gates[i + 1]
Push(gates, i, cell) == [gates EXCEPT ![i + 1] = Append(@, cell)]

\* add_qubits_vec: push empty tracks while len <= max(qubits), 0 for no qubit.
add_qubits_vec(gates, qubits) ==
    LET want == Max(Range(qubits)) + 1
    IN  IF Len(gates) >= want THEN gates
        ELSE gates \o [i \in 1..(want - Len(gates)) |-> <<>>]

\* effective_len: the cells that hold none of the four marker words.
effective_len(gates) ==
    Len(gates) - Cardinality({i \in 1..Len(gates) :
                                \E w \in Markers : Contains(gates[i], w)})

\* A pass that stops after the first track it pads.
FlattenPass_first_only(gates, qubits, max_len) ==
    LET short == {i \in 1..Len(qubits) :
                     effective_len(Track(gates, qubits[i])) < max_len}
    IN  IF short = {} THEN gates ELSE Push(gates, qubits[Min(short)], Filler)

\* One pass of the for loop inside flatten_qubits' while loop.
RECURSIVE FlattenPass(_, _, _)
FlattenPass(gates, qubits, max_len) ==
    IF qubits = <<>> THEN gates
    ELSE LET q == Head(qubits)
             next == IF effective_len(Track(gates, q)) < max_len
                     THEN Push(gates, q, Filler) ELSE gates
         IN  FlattenPass(next, Tail(qubits), max_len)

RECURSIVE FlattenLoop(_, _, _)
FlattenLoop(gates, qubits, max_len) ==
    IF \E i \in 1..Len(qubits) : effective_len(Track(gates, qubits[i])) # max_len
    THEN FlattenLoop(FlattenPass(gates, qubits, max_len), qubits, max_len)
    ELSE gates

flatten_qubits(gates, qubits) ==
    FlattenLoop(gates, qubits,
                Max({effective_len(Track(gates, qubits[i])) : i \in 1..Len(qubits)}))

\* A filler written over the last cell of every track min+1 .. max.
push_ones_overwrite(gates, min, max) ==
    [i \in 1..Len(gates) |->
        IF i - 1 >= min + 1 /\ i - 1 <= max
        THEN IF gates[i] = <<>> THEN <<Filler>>
             ELSE [gates[i] EXCEPT ![Len(gates[i])] = Filler]
        ELSE gates[i]]

\* push_ones: a filler on every track min+1 .. max that exists.
push_ones(gates, min, max) ==
    [i \in 1..Len(gates) |->
        IF i - 1 >= min + 1 /\ i - 1 <= max THEN Append(gates[i], Filler) ELSE gates[i]]

\* flatten_multiple_vec returns the pair of padded track lists.
RECURSIVE FlattenMultipleLoop(_, _, _, _, _)
FlattenMultipleLoop(gate_vec_1, gate_vec_2, vec_1_ind, vec_2_ind, max_len) ==
    IF \/ \E i \in 1..Len(vec_1_ind) :
              effective_len(Track(gate_vec_1, vec_1_ind[i])) # max_len
       \/ \E i \in 1..Len(vec_2_ind) :
              effective_len(Track(gate_vec_2, vec_2_ind[i])) # max_len
    THEN FlattenMultipleLoop(FlattenPass(gate_vec_1, vec_1_ind, max_len),
                             FlattenPass(gate_vec_2, vec_2_ind, max_len),
                             vec_1_ind, vec_2_ind, max_len)
    ELSE <<gate_vec_1, gate_vec_2>>

flatten_multiple_vec(gate_vec_1, gate_vec_2, vec_1_ind, vec_2_ind) ==
    FlattenMultipleLoop(gate_vec_1, gate_vec_2, vec_1_ind, vec_2_ind,
        Max({effective_len(Track(gate_vec_1, vec_1_ind[i])) : i \in 1..Len(vec_1_ind)}
            \cup
            {effective_len(Track(gate_vec_2, vec_2_ind[i])) : i \in 1..Len(vec_2_ind)}))

\* The lock-drain loop: while the lock list holds (t, effective_len(track t)),
\* drop every such entry and push a filler.  Returns <<gates, lock>>.
RECURSIVE drain_lock(_, _, _)
drain_lock(gates, lock, t) ==
    LET here == <<t, effective_len(Track(gates, t))>>
    IN  IF \E i \in 1..Len(lock) : lock[i] = here
        THEN drain_lock(Push(gates, t, Filler),
                        SelectSeq(lock, LAMBDA val : val # here), t)
        ELSE <<gates, lock>>

(***************************************************************************)
(* The layout state add_gate works on: the six &mut arguments, and err,    *)
(* the Result (<<>> for Ok(()), else the error returned).                  *)
(***************************************************************************)
Layout(cg, bg, kg, cl, bl, kl, err) ==
    [circuit_gates |-> cg, bosonic_gates |-> bg, classical_gates |-> kg,
     circuit_lock |-> cl, bosonic_lock |-> bl, classical_lock |-> kl, err |-> err]

Ok == <<>>

\* Number of qubit tracks beyond the last one that the hybrid gates and the
\* measurement reserve a column on.
LockAhead == 10

\* Last qubit track (exclusive) prepare_for_slice locks at column 0.
SliceLockEnd == 10

\* Locks (t, column) for t in lo..hi-1, appended in order.
push_locks(lock, lo, hi, column) ==
    lock \o [i \in 1..(IF hi > lo THEN hi - lo ELSE 0) |-> <<lo + i - 1, column>>]

\* prepare_for_slice on the qubit tracks and qubit locks of s.
prepare_for_slice(s) ==
    LET g0 == add_qubits_vec(s.circuit_gates, <<0>>)
        t0 == Track(g0, 0)
        marked == {i \in 1..Len(t0) :
                      Contains(t0[i], "slice") \/ Contains(t0[i], "gategroup")}
        level == effective_len(t0) = Max({effective_len(g0[i]) : i \in 1..Len(g0)})
        g1 == IF level /\ marked # {}
              THEN LET last_slice == t0[Max(marked)]
                       pos == Min({i \in 1..Len(t0) : t0[i] = last_slice}) - 1
                       divider == Len(t0) - pos
                       count == (LastLineChars(last_slice) \div (10 * divider)) + 1
                   IN  [g0 EXCEPT ![1] = @ \o [i \in 1..count |-> Filler]]
              ELSE g0
    IN  IF Track(g1, 0) = <<>>
        THEN [s EXCEPT !.circuit_gates = Push(g1, 0, Filler),
                       !.circuit_lock = push_locks(@, 1, SliceLockEnd, 0)]
        ELSE [s EXCEPT !.circuit_gates = g1]

\* The loop of prepare_for_ctrl over the qubits strictly between min and max:
\* drain the qubit's lock, then level min with the qubit if the qubit is ahead.
RECURSIVE ctrl_between(_, _, _, _)
ctrl_between(gates, lock, min, qubits) ==
    IF qubits = <<>> THEN <<gates, lock>>
    ELSE LET qubit == Head(qubits)
             d == drain_lock(gates, lock, qubit)
             g == IF Len(d[1]) > qubit
                     /\ effective_len(Track(d[1], qubit)) > effective_len(Track(d[1], min))
                  THEN flatten_qubits(d[1], <<min, qubit>>)
                  ELSE d[1]
         IN  ctrl_between(g, d[2], min, Tail(qubits))

prepare_for_ctrl(s, min, max) ==
    LET g0 == flatten_qubits(add_qubits_vec(s.circuit_gates, <<min, max>>), <<min, max>>)
        b == ctrl_between(g0, s.circuit_lock, min, RangeSeq(min + 1, max))
        g1 == flatten_qubits(b[1], <<min, max>>)
    IN  [s EXCEPT !.circuit_gates = g1,
                  !.circuit_lock = push_locks(b[2], min + 1, max,
                                              effective_len(Track(g1, min)))]

(***************************************************************************)
(* Operations.  k is the operation's hqslang name; the other fields are    *)
(* the operands and parameters the placement rule reads.                   *)
(***************************************************************************)
Hadamard(q) == [k |-> "Hadamard", qubit |-> q]
Identity(q) == [k |-> "Identity", qubit |-> q]
CNOT(c, t) == [k |-> "CNOT", control |-> c, target |-> t]
SWAP(c, t) == [k |-> "SWAP", control |-> c, target |-> t]
ISwap(c, t) == [k |-> "ISwap", control |-> c, target |-> t]
ControlledPauliZ(c, t) == [k |-> "ControlledPauliZ", control |-> c, target |-> t]
XY(c, t, theta) == [k |-> "XY", control |-> c, target |-> t, theta |-> theta]
Toffoli(c0, c1, t) == [k |-> "Toffoli", control_0 |-> c0, control_1 |-> c1, target |-> t]
PragmaGlobalPhase(p) == [k |-> "PragmaGlobalPhase", phase |-> p]
PragmaLoop(r, c) == [k |-> "PragmaLoop", repetitions |-> r, circuit |-> c]
PragmaConditional(r, c) ==
    [k |-> "PragmaConditional", condition_register |-> r, circuit |-> c]
MeasureQubit(q, r, i) ==
    [k |-> "MeasureQubit", qubit |-> q, readout |-> r, readout_index |-> i]
DefinitionBit(name) == [k |-> "DefinitionBit", name |-> name]
DefinitionFloat(name) == [k |-> "DefinitionFloat", name |-> name]
Squeezing(m) == [k |-> "Squeezing", mode |-> m]
BeamSplitter(m0, m1) == [k |-> "BeamSplitter", mode_0 |-> m0, mode_1 |-> m1]
QuantumRabi(q, m) == [k |-> "QuantumRabi", qubit |-> q, mode |-> m]
RotateX(q, theta) == [k |-> "RotateX", qubit |-> q, theta |-> theta]
CZQubitResonator(q, m) == [k |-> "CZQubitResonator", qubit |-> q, mode |-> m]
InputBit(name, index) == [k |-> "InputBit", name |-> name, index |-> index]
CallDefinedGate(qubits) == [k |-> "CallDefinedGate", qubits |-> qubits]
\* qubit_mapping is an Option<HashMap<usize, usize>>: <<>> for None, else
\* <<map>> with map the <<qubit, index>> entries of the HashMap in the order
\* its iterator yields them.  Two maps with the same entries are equal in
\* Rust whatever their iteration orders.
\* circuit is an Option<Circuit>: <<>> for None, else <<circuit>>.
PragmaGetStateVector(readout, c) ==
    [k |-> "PragmaGetStateVector", readout |-> readout, circuit |-> c]
PragmaRepeatedMeasurement(readout, number_measurements, qubit_mapping) ==
    [k |-> "PragmaRepeatedMeasurement", readout |-> readout,
     number_measurements |-> number_measurements, qubit_mapping |-> qubit_mapping]

\* Operations ignored by the backend without an error.
ALLOWED_OPERATIONS == {"DefinitionFloat", "DefinitionComplex", "DefinitionUsize"}

\* The operation kinds that nest a circuit.
CircuitKinds == {"PragmaLoop", "PragmaConditional"}

\* Operation::involved_qubits(): [all |-> TRUE] for InvolvedQubits::All,
\* else the set of qubits (empty for InvolvedQubits::None).
RECURSIVE involved_qubits(_)
involved_qubits(op) ==
    LET Set(S) == [all |-> FALSE, set |-> S]
    IN  CASE op.k \in {"Hadamard", "Identity", "MeasureQubit", "QuantumRabi",
                        "CZQubitResonator", "RotateX"} ->
                Set({op.qubit})
          [] op.k \in {"CNOT", "SWAP", "ISwap", "ControlledPauliZ", "XY"} ->
                Set({op.control, op.target})
          [] op.k = "Toffoli" -> Set({op.control_0, op.control_1, op.target})
          [] op.k = "CallDefinedGate" -> Set(Range(op.qubits))
          [] op.k \in {"PragmaRepeatedMeasurement", "PragmaGetStateVector"} ->
                [all |-> TRUE, set |-> {}]
          [] op.k \in CircuitKinds ->
                LET parts == [i \in 1..Len(op.circuit) |-> involved_qubits(op.circuit[i])]
                IN  IF \E i \in 1..Len(parts) : parts[i].all
                    THEN [all |-> TRUE, set |-> {}]
                    ELSE Set(UNION {parts[i].set : i \in 1..Len(parts)})
          [] OTHER -> Set({})

\* Circuit::involved_qubits(): that of an operation nesting the circuit.
circuit_involved_qubits(ops) == involved_qubits(PragmaLoop("1", ops))

\* A set of track indices as a Vec, in ascending order.
RECURSIVE SetToSeq(_)
SetToSeq(S) == IF S = {} THEN <<>> ELSE <<Min(S)>> \o SetToSeq(S \ {Min(S)})

\* used_qubits as add_gate collects them from involved_qubits().
used_qubits(gates, op) ==
    LET inv == involved_qubits(op)
    IN  IF inv.all THEN RangeSeq(0, Len(gates)) ELSE SetToSeq(inv.set)

\* The drain loop over a list of tracks.
RECURSIVE drain_locks(_, _, _)
drain_locks(gates, lock, tracks) ==
    IF tracks = <<>> THEN <<gates, lock>>
    ELSE LET d == drain_lock(gates, lock, Head(tracks))
         IN  drain_locks(d[1], d[2], Tail(tracks))

\* The part of add_gate before the match: ensure and level the involved
\* qubit tracks, then drain their locks.
preamble_in(s, used) ==
    LET g == flatten_qubits(add_qubits_vec(s.circuit_gates, used), used)
        d == drain_locks(g, s.circuit_lock, used)
    IN  [s EXCEPT !.circuit_gates = d[1], !.circuit_lock = d[2]]

preamble(s, op) == preamble_in(s, used_qubits(s.circuit_gates, op))

(***************************************************************************)
(* The placement rules of add_gate, one operator per match arm.  Each      *)
(* takes the layout left by the preamble and returns the layout the arm    *)
(* leaves.                                                                 *)
(***************************************************************************)
SetGates(s, g) == [s EXCEPT !.circuit_gates = g]

\* Operation::Hadamard
place_Hadamard(s, op) ==
    SetGates(s, Push(add_qubits_vec(s.circuit_gates, <<op.qubit>>), op.qubit,
                     Cell("glyph", "H", "", 0, NoRef)))

\* Operation::RotateX: the cell holds format_calculator(theta).
place_RotateX(s, op) ==
    SetGates(s, Push(add_qubits_vec(s.circuit_gates, <<op.qubit>>), op.qubit,
                     Cell("gate", "Rx", op.theta, 0, NoRef)))

\* Operation::Identity: the cell goes to the bosonic tracks.
place_Identity(s, op) ==
    [s EXCEPT !.bosonic_gates =
        Push(add_qubits_vec(s.bosonic_gates, <<op.qubit>>), op.qubit,
             Cell("glyph", "I", "", 0, NoRef))]

\* Operation::CNOT
place_CNOT(s, op) ==
    LET min == Min({op.control, op.target})
        max == Max({op.control, op.target})
        p == prepare_for_ctrl(s, min, max)
        g == Push(p.circuit_gates, op.control,
                  Cell("ctrl", "", "", op.target - op.control, NoRef))
    IN  SetGates(p, Push(g, op.target, Cell("targ", "", "", 0, NoRef)))

\* Operation::SWAP
place_SWAP(s, op) ==
    LET min == Min({op.control, op.target})
        max == Max({op.control, op.target})
        qubits == RangeSeq(min, max + 1)
        g == flatten_qubits(add_qubits_vec(s.circuit_gates, qubits), qubits)
    IN  SetGates(s, Push(Push(g, min, Cell("swap", "", "", max - min, NoRef)),
                         max, Cell("targX", "", "", 0, NoRef)))

\* Operation::ISwap
place_ISwap(s, op) ==
    LET min == Min({op.control, op.target})
        max == Max({op.control, op.target})
        qubits == RangeSeq(min, max + 1)
        g == flatten_qubits(add_qubits_vec(s.circuit_gates, qubits), qubits)
    IN  SetGates(s, Push(Push(g, min, Cell("swap", "ISwap", "", max - min, NoRef)),
                         max, Cell("targX", "", "", 0, NoRef)))

\* Operation::ControlledPauliZ
place_ControlledPauliZ(s, op) ==
    LET min == Min({op.control, op.target})
        max == Max({op.control, op.target})
        p == prepare_for_ctrl(s, min, max)
        g == Push(p.circuit_gates, op.control,
                  Cell("ctrl", "", "", op.target - op.control, NoRef))
    IN  SetGates(p, Push(g, op.target, Cell("gate", "Z", "", 0, NoRef)))

\* Operation::XY
place_XY(s, op) ==
    LET min == Min({op.control, op.target})
        max == Max({op.control, op.target})
        qubits == RangeSeq(min, max + 1)
        g == flatten_qubits(add_qubits_vec(s.circuit_gates, qubits), qubits)
    IN  SetGates(s, push_ones(Push(g, min, Cell("mqgate", "XY", op.theta,
                                                Len(qubits), NoRef)),
                              min, max))

\* Operation::Toffoli
place_Toffoli(s, op) ==
    LET qubits == <<op.control_0, op.target, op.control_1>>
        min == Min(Range(qubits))
        max == Max(Range(qubits))
        g0 == flatten_qubits(add_qubits_vec(s.circuit_gates, qubits), qubits)
        p == prepare_for_ctrl(SetGates(s, g0), min, max)
        g1 == flatten_qubits(p.circuit_gates, qubits)
        g2 == Push(g1, op.control_0,
                   Cell("ctrl", "", "", op.target - op.control_0, NoRef))
        g3 == Push(g2, op.control_1,
                   Cell("ctrl", "", "", op.target - op.control_1, NoRef))
    IN  SetGates(p, Push(g3, op.target, Cell("targ", "", "", 0, NoRef)))

\* The global markers: Operation::PragmaGlobalPhase
place_PragmaGlobalPhase(s, op) ==
    LET p == prepare_for_slice(s)
        n == Len(p.circuit_gates)
        g == flatten_qubits(p.circuit_gates, RangeSeq(0, n))
    IN  SetGates(p, Push(g, 0, Cell("slice", "GlobalPhase", op.phase, 0, NoRef)))

\* Operation::DefinitionBit
place_DefinitionBit(s, op) ==
    [s EXCEPT !.classical_gates =
        Append(@, <<Cell("lstick", "", op.name, 0, NoRef),
                    Cell("setwire", "", "", 2, NoRef)>>)]

\* Operation::InputBit: the first register whose row label contains the name.
place_InputBit(s, op) ==
    LET hits == {i \in 1..Len(s.classical_gates) :
                    StrContains(s.classical_gates[i][1].txt, op.name)}
    IN  IF hits = {} THEN s
        ELSE [s EXCEPT !.classical_gates =
                 Push(@, Min(hits) - 1, Cell("gate", "InputBit", "", op.index, NoRef))]

\* Operation::Squeezing
place_Squeezing(s, op) ==
    LET d == drain_lock(add_qubits_vec(s.bosonic_gates, <<op.mode>>),
                        s.bosonic_lock, op.mode)
    IN  [s EXCEPT !.bosonic_gates = Push(d[1], op.mode,
                                         Cell("gate", "Squeezing", "", 0, NoRef)),
                  !.bosonic_lock = d[2]]

\* Operation::BeamSplitter: the fillers of the span go to the qubit tracks.
place_BeamSplitter(s, op) ==
    LET min == Min({op.mode_0, op.mode_1})
        max == Max({op.mode_0, op.mode_1})
        modes == RangeSeq(min, max + 1)
        d == drain_locks(add_qubits_vec(s.bosonic_gates, modes), s.bosonic_lock, modes)
        b == flatten_qubits(d[1], modes)
    IN  [s EXCEPT !.bosonic_gates = Push(b, min, Cell("mqgate", "BeamSplitter", "",
                                                      Len(modes), NoRef)),
                  !.bosonic_lock = d[2],
                  !.circuit_gates = push_ones(@, min, max)]

\* Operation::QuantumRabi (LongitudinalCoupling, JaynesCummings and the
\* single-excitation gates differ in the text of the two cells only).
place_QuantumRabi(s, op) ==
    LET b0 == add_qubits_vec(s.bosonic_gates, <<op.mode>>)
        f0 == flatten_multiple_vec(s.circuit_gates, b0, <<op.qubit>>, <<op.mode>>)
        d == drain_lock(f0[2], s.bosonic_lock, op.mode)
        f1 == flatten_multiple_vec(f0[1], d[1], <<op.qubit>>, <<op.mode>>)
        g == add_qubits_vec(f1[1], <<op.qubit>>)
        b == f1[2]
    IN  [s EXCEPT
            !.circuit_lock = push_locks(@, op.qubit + 1, Len(g) + LockAhead,
                                        effective_len(Track(g, op.qubit))),
            !.bosonic_lock = push_locks(d[2], 0, op.mode,
                                        effective_len(Track(b, op.mode))),
            !.circuit_gates = Push(g, op.qubit, HybridCell(op.qubit, op.mode)),
            !.bosonic_gates = Push(b, op.mode, Cell("gate", "QuantumRabi", "", 0, NoRef))]

\* The two loops of the CZQubitResonator arm: flatten_qubits(gates, [t, u])
\* for every track u of others that is longer than track t.
RECURSIVE level_with_longer(_, _, _)
level_with_longer(gates, t, others) ==
    IF others = <<>> THEN gates
    ELSE LET u == Head(others)
             next == IF Len(gates) > u
                        /\ effective_len(Track(gates, u)) > effective_len(Track(gates, t))
                     THEN flatten_qubits(gates, <<t, u>>) ELSE gates
         IN  level_with_longer(next, t, Tail(others))

\* Operation::CZQubitResonator
place_CZQubitResonator(s, op) ==
    LET b0 == add_qubits_vec(s.bosonic_gates, <<op.mode>>)
        f0 == flatten_multiple_vec(s.circuit_gates, b0, <<op.qubit>>, <<op.mode>>)
        d == drain_lock(f0[2], s.bosonic_lock, op.mode)
        f1 == flatten_multiple_vec(f0[1], d[1], <<op.qubit>>, <<op.mode>>)
        g0 == add_qubits_vec(f1[1], <<op.qubit>>)
        g == level_with_longer(g0, op.qubit, RangeSeq(op.qubit + 1, Len(g0)))
        b == level_with_longer(f1[2], op.mode, RangeSeq(0, op.mode))
    IN  [s EXCEPT
            !.circuit_lock = push_locks(@, op.qubit + 1, Len(g) + LockAhead,
                                        effective_len(Track(g, op.qubit))),
            !.bosonic_lock = push_locks(d[2], 0, op.mode,
                                        effective_len(Track(b, op.mode))),
            !.circuit_gates = Push(g, op.qubit,
                                   Cell("ctrl", "CZQubitResonator", "", op.qubit,
                                        BosonRef(op.mode))),
            !.bosonic_gates = Push(b, op.mode, Cell("gate", "Z", "", 0, NoRef))]

(***************************************************************************)
(* Operation::MeasureQubit.                                                *)
(***************************************************************************)
\* The register's row label, as DefinitionBit writes it.
RegisterLabel(name) == Cell("lstick", "", name, 0, NoRef)

\* The lookup by String::contains on the row label, as InputBit does it.
find_register_contains(classical, readout) ==
    LET hits == {i \in 1..Len(classical) : StrContains(classical[i][1].txt, readout)}
    IN  IF hits = {} THEN -1 ELSE Min(hits) - 1

\* The index of the first classical track whose first cell is the row label
\* of the readout register; -1 for None.
find_register(classical, readout) ==
    LET hits == {i \in 1..Len(classical) : classical[i][1] = RegisterLabel(readout)}
    IN  IF hits = {} THEN -1 ELSE Min(hits) - 1

\* for qubit in op.qubit .. circuit_gates.len(): drain, then level with op.qubit.
RECURSIVE measure_qubits(_, _, _, _)
measure_qubits(gates, lock, q, qubits) ==
    IF qubits = <<>> THEN <<gates, lock>>
    ELSE LET qubit == Head(qubits)
             d == drain_lock(gates, lock, qubit)
             g == IF Len(d[1]) > qubit
                     /\ effective_len(Track(d[1], qubit)) > effective_len(Track(d[1], q))
                  THEN flatten_qubits(d[1], <<q, qubit>>)
                  ELSE d[1]
         IN  measure_qubits(g, d[2], q, Tail(qubits))

\* for boson in 0 .. bosonic_gates.len(): drain, then level op.qubit with it.
\* Returns <<circuit_gates, bosonic_gates, bosonic_lock>>.
RECURSIVE measure_bosons(_, _, _, _, _)
measure_bosons(gates, bosons, lock, q, modes) ==
    IF modes = <<>> THEN <<gates, bosons, lock>>
    ELSE LET boson == Head(modes)
             d == drain_lock(bosons, lock, boson)
             f == IF Len(d[1]) > boson
                     /\ effective_len(Track(d[1], boson)) > effective_len(Track(gates, q))
                  THEN flatten_multiple_vec(gates, d[1], <<q>>, <<boson>>)
                  ELSE <<gates, d[1]>>
         IN  measure_bosons(f[1], f[2], d[2], q, Tail(modes))

\* for classical_index in 0 .. index + 1: drain, then level with index.
RECURSIVE measure_classical(_, _, _, _)
measure_classical(classical, lock, index, indices) ==
    IF indices = <<>> THEN <<classical, lock>>
    ELSE LET classical_index == Head(indices)
             d == drain_lock(classical, lock, classical_index)
             k == IF Len(d[1]) > classical_index
                     /\ effective_len(Track(d[1], classical_index))
                            > effective_len(Track(d[1], index))
                  THEN flatten_qubits(d[1], <<index, classical_index>>)
                  ELSE d[1]
         IN  measure_classical(k, d[2], index, Tail(indices))

\* Variant that leaves the two tracks as the three loops left them.
measure_no_sync(gates, classical, q, index) == <<gates, classical>>

\* The last levelling of the measured qubit with the register, before the
\* locks are pushed and the two cells appended.
measure_sync(gates, classical, q, index) ==
    flatten_multiple_vec(gates, classical, <<q>>, <<index>>)

\* The locks pushed and the two cells appended by a measurement into a register.
measure_append(s, gates, bosons, classical, op, index) ==
    LET column == effective_len(Track(classical, index))
    IN  [s EXCEPT
            !.circuit_lock = push_locks(@, op.qubit, Len(gates) + LockAhead, column),
            !.bosonic_lock = push_locks(@, 0, Len(bosons) + LockAhead, column),
            !.classical_lock = push_locks(@, 0, index, Len(Track(classical, index))),
            !.circuit_gates = Push(gates, op.qubit,
                                   MeterCell(op.qubit, index)),
            !.bosonic_gates = bosons,
            !.classical_gates = Push(classical, index,
                                     Cell("ctrl", "readout", "", op.readout_index, NoRef))]

place_MeasureQubit(s, op) ==
    LET g0 == add_qubits_vec(s.circuit_gates, <<op.qubit>>)
        index == find_register(s.classical_gates, op.readout)
    IN  IF index = -1
        THEN SetGates(s, Push(g0, op.qubit, Cell("meter", "", "", 0, NoRef)))
        ELSE LET f0 == flatten_multiple_vec(g0, s.classical_gates, <<op.qubit>>, <<index>>)
                 a == measure_qubits(f0[1], s.circuit_lock, op.qubit,
                                     RangeSeq(op.qubit, Len(f0[1])))
                 b == measure_bosons(a[1], s.bosonic_gates, s.bosonic_lock, op.qubit,
                                     RangeSeq(0, Len(s.bosonic_gates)))
                 c == measure_classical(f0[2], s.classical_lock, index,
                                        RangeSeq(0, index + 1))
                 f1 == measure_sync(b[1], c[1], op.qubit, index)
             IN  measure_append([s EXCEPT !.circuit_lock = a[2], !.bosonic_lock = b[3],
                                          !.classical_lock = c[2]],
                                f1[1], b[2], f1[2], op, index)

(***************************************************************************)
(* The grouping operations (PragmaLoop, PragmaConditional): a bracket cell *)
(* with the placeholder replace_by_len, the nested circuit placed by       *)
(* add_gate, then the placeholder patched with the width.                  *)
(***************************************************************************)
\* The operation kinds whose arm draws a bracket and places operations in it.
GroupingKinds ==
    CircuitKinds \cup {"PragmaGetStateVector", "PragmaRepeatedMeasurement"}

\* The operations the arm hands to add_gate: the nested circuit;
\* PragmaGetStateVector without a circuit takes one Identity per qubit track;
\* PragmaRepeatedMeasurement takes MeasureQubit(qubit, "ro", qubit) for the
\* keys of its mapping in the map's iteration order, or for every qubit track.
group_body(s, op) ==
    LET n == Len(s.circuit_gates)
        keys == IF op.qubit_mapping = <<>> THEN RangeSeq(0, n)
                ELSE [i \in 1..Len(op.qubit_mapping[1]) |-> op.qubit_mapping[1][i][1]]
    IN  CASE op.k = "PragmaGetStateVector" ->
                IF op.circuit = <<>> THEN [i \in 1..n |-> Identity(i - 1)]
                ELSE op.circuit[1]
          [] op.k = "PragmaRepeatedMeasurement" ->
                [i \in 1..Len(keys) |-> MeasureQubit(keys[i], "ro", keys[i])]
          [] OTHER -> op.circuit

\* used_qubits of the arm: the involved qubits of the operation, of the
\* measured circuit, or the keys of the mapping.
group_used(s, op) ==
    LET n == Len(s.circuit_gates)
        inv == circuit_involved_qubits(group_body(s, op))
    IN  CASE op.k = "PragmaGetStateVector" ->
                IF inv.all THEN RangeSeq(0, n) ELSE SetToSeq(inv.set)
          [] op.k = "PragmaRepeatedMeasurement" ->
                [i \in 1..Len(group_body(s, op)) |-> group_body(s, op)[i].qubit]
          [] OTHER -> used_qubits(s.circuit_gates, op)

\* qubits: the range from the smallest to the largest used qubit.
group_qubits(s, op) ==
    LET used == group_used(s, op)
    IN  RangeSeq(Min(Range(used)), Max(Range(used)) + 1)

\* Up to and including the push of the bracket cell.
group_open(s, op, cell) ==
    LET p == prepare_for_slice(s)
        qubits == group_qubits(p, op)
        g == flatten_qubits(add_qubits_vec(p.circuit_gates, qubits), qubits)
    IN  SetGates(p, Push(g, Head(qubits), cell))

\* max_gates_len_diff: the largest growth in cells of a track of qubits
\* between old (after the bracket push) and now.
max_gates_len_diff(old, now, qubits) ==
    Max({Len(Track(now, qubits[i])) - Len(Track(old, qubits[i])) : i \in 1..Len(qubits)})

\* String::replace("replace_by_len", width) on a cell.
patch_len(cell, width) ==
    IF cell.ref = LenRef THEN [cell EXCEPT !.ref = ValueRef(Digits(width))] ELSE cell

\* The patch of the bracket cell and the closing flatten.
group_close(old, body, qubits) ==
    LET min == Head(qubits)
        width == max_gates_len_diff(old, body.circuit_gates, qubits)
        patched == [body.circuit_gates EXCEPT
                       ![min + 1][Len(Track(old, min))] = patch_len(@, width)]
    IN  SetGates(body, flatten_qubits(patched, qubits))

LoopCell(op, qubits) == Cell("gategroup", "Loop", op.repetitions, Len(qubits), LenRef)
ConditionalCell(op, qubits) ==
    Cell("gategroup", "Conditional", op.condition_register, Len(qubits), LenRef)

\* The bracket cell of a grouping operation spanning qubits.
group_cell(op, qubits) ==
    CASE op.k = "PragmaLoop" -> LoopCell(op, qubits)
      [] op.k = "PragmaConditional" -> ConditionalCell(op, qubits)
      [] op.k = "PragmaGetStateVector" ->
            Cell("gategroup", "GetStateVector", op.readout, Len(qubits), LenRef)
      [] op.k = "PragmaRepeatedMeasurement" ->
            Cell("gategroup", "Repeat", op.number_measurements, Len(qubits),
                 ValueRef(Digits(1)))

\* Variant of the early return that reports the enclosing operation.
propagate_as_group(body, op) ==
    [body EXCEPT !.err = <<"OperationNotInBackend", op.k>>]

\* add_gate(..., operation)?; inside an arm: the nested call's error is the
\* arm's return value.
propagate(body, op) == body

RECURSIVE add_gate(_, _)
RECURSIVE run_circuit(_, _)
RECURSIVE place_group(_, _)

\* for operation in circuit.iter() { add_gate(..., operation)?; }
run_circuit(s, ops) ==
    IF ops = <<>> THEN s
    ELSE LET next == add_gate(s, Head(ops))
         IN  IF next.err # Ok THEN next ELSE run_circuit(next, Tail(ops))

\* Operation::PragmaLoop, ::PragmaConditional, ::PragmaGetStateVector and
\* ::PragmaRepeatedMeasurement.  The first two return at once on an empty
\* circuit; the last two fail after prepare_for_slice when no qubit is used,
\* and PragmaRepeatedMeasurement has no width to patch.
place_group(s, op) ==
    IF op.k \in CircuitKinds /\ op.circuit = <<>> THEN s
    ELSE LET p == prepare_for_slice(s)
             qubits == group_qubits(p, op)
             open == group_open(s, op, group_cell(op, qubits))
             body == run_circuit(open, group_body(p, op))
         IN  IF op.k \notin CircuitKinds /\ group_used(p, op) = <<>>
             THEN [p EXCEPT !.err = <<"GenericError", op.k>>]
             ELSE IF op.k = "PragmaGetStateVector" /\ group_body(p, op) = <<>> THEN p
             ELSE IF body.err # Ok THEN propagate(body, op)
             ELSE IF op.k = "PragmaRepeatedMeasurement"
             THEN SetGates(body, flatten_qubits(body.circuit_gates, qubits))
             ELSE group_close(open.circuit_gates, body, qubits)

\* add_gate: the preamble, then the match on the operation.
add_gate(s, op) ==
    LET p == preamble(s, op)
    IN  CASE op.k = "Hadamard" -> place_Hadamard(p, op)
          [] op.k = "Identity" -> place_Identity(p, op)
          [] op.k = "RotateX" -> place_RotateX(p, op)
          [] op.k = "CNOT" -> place_CNOT(p, op)
          [] op.k = "SWAP" -> place_SWAP(p, op)
          [] op.k = "ISwap" -> place_ISwap(p, op)
          [] op.k = "ControlledPauliZ" -> place_ControlledPauliZ(p, op)
          [] op.k = "XY" -> place_XY(p, op)
          [] op.k = "Toffoli" -> place_Toffoli(p, op)
          [] op.k = "PragmaGlobalPhase" -> place_PragmaGlobalPhase(p, op)
          [] op.k \in GroupingKinds -> place_group(p, op)
          [] op.k = "MeasureQubit" -> place_MeasureQubit(p, op)
          [] op.k = "DefinitionBit" -> place_DefinitionBit(p, op)
          [] op.k = "InputBit" -> place_InputBit(p, op)
          [] op.k = "Squeezing" -> place_Squeezing(p, op)
          [] op.k = "BeamSplitter" -> place_BeamSplitter(p, op)
          [] op.k = "QuantumRabi" -> place_QuantumRabi(p, op)
          [] op.k = "CZQubitResonator" -> place_CZQubitResonator(p, op)
          [] OTHER -> IF op.k \in ALLOWED_OPERATIONS THEN p
                      ELSE [p EXCEPT !.err = <<"OperationNotInBackend", op.k>>]

(***************************************************************************)
(* Deferred references: replace_boson_index and replace_classical_index.   *)
(* A token is followed in the string by the digits of its index, so the    *)
(* pattern of index i occurs in a cell when the digits of i are a prefix   *)
(* of the digits written after the token; String::replace then leaves the  *)
(* remaining digits behind the value.                                      *)
(***************************************************************************)
\* output.contains(pattern), pattern = tok followed by the digits of index.
ContainsPattern(cell, tok, index) ==
    cell.ref.tok = tok /\ IsPrefix(Digits(index), cell.ref.d)

\* output.replace(pattern, value.to_string())
ReplacePattern(cell, index, value) ==
    [cell EXCEPT !.ref = ValueRef(Digits(value)
                                  \o SubSeq(@.d, Len(Digits(index)) + 1, Len(@.d)))]

\* for boson in from .. n_bosons + 1
RECURSIVE boson_loop(_, _, _, _)
boson_loop(output, boson, qubits, bosons) ==
    IF boson > bosons THEN output
    ELSE boson_loop(IF ContainsPattern(output, "replace_by_n_qubits_plus_", boson)
                    THEN ReplacePattern(output, boson, boson + qubits)
                    ELSE output,
                    boson + 1, qubits, bosons)

\* Variant that never looks for the pattern of index 0.
replace_boson_index_from_one(bosonic_gate, qubits, bosons) ==
    boson_loop(bosonic_gate, 1, qubits, bosons)

replace_boson_index(bosonic_gate, qubits, bosons) ==
    boson_loop(bosonic_gate, 0, qubits, bosons)

\* for index in from .. n_classical + 1
RECURSIVE classical_loop(_, _, _, _, _)
classical_loop(output, index, qubits, bosons, classicals) ==
    IF index > classicals THEN output
    ELSE classical_loop(IF ContainsPattern(output, "replace_by_classical_len_", index)
                        THEN ReplacePattern(output, index, index + qubits + bosons)
                        ELSE output,
                        index + 1, qubits, bosons, classicals)

replace_classical_index(classical_gate, qubits, bosons, classicals) ==
    classical_loop(classical_gate, 0, qubits, bosons, classicals)

\* The closure the driver maps over the cells of a qubit track.
resolve_gate(cell, qubits, bosons, classicals) ==
    IF cell.ref.tok = "replace_by_n_qubits_plus_"
    THEN replace_boson_index(cell, qubits, bosons)
    ELSE IF cell.ref.tok = "replace_by_classical_len_"
         THEN replace_classical_index(cell, qubits, bosons, classicals)
         ELSE cell

(***************************************************************************)
(* The driver circuit_into_typst_str, one operation of the circuit per     *)
(* step.                                                                   *)
(***************************************************************************)
\* Longest circuit handed to the driver.
MaxOps == 4

\* The layout the six state variables hold.
Current ==
    Layout(circuit_gates, bosonic_gates, classical_gates,
           circuit_lock, bosonic_lock, classical_lock, Ok)

\* RenderPragmas::All, ::None and ::Partial(pragmas).
RenderAll == [mode |-> "All", pragmas |-> {}]
RenderNone == [mode |-> "None", pragmas |-> {}]
RenderPartial(pragmas) == [mode |-> "Partial", pragmas |-> pragmas]

\* The operation names that start with "Pragma".
PragmaNames ==
    {"PragmaGlobalPhase", "PragmaLoop", "PragmaConditional", "PragmaGetStateVector",
     "PragmaRepeatedMeasurement"}

\* The match on render_pragmas: TRUE when the loop continues without add_gate.
Skipped(render_pragmas, op) ==
    CASE render_pragmas.mode = "All" -> FALSE
      [] render_pragmas.mode = "None" -> op.k \in PragmaNames
      [] OTHER -> op.k \in PragmaNames /\ op.k \notin render_pragmas.pragmas

\* Variant without the qubit/boson call.
final_flatten_without_first(gates, bosons, classical) ==
    LET b == flatten_multiple_vec(gates, classical,
                                  RangeSeq(0, Len(gates)), RangeSeq(0, Len(classical)))
        c == flatten_multiple_vec(bosons, b[2],
                                  RangeSeq(0, Len(bosons)), RangeSeq(0, Len(classical)))
    IN  <<b[1], c[1], c[2]>>

\* The three cross-domain flatten calls after the loop.
\* Returns <<circuit_gates, bosonic_gates, classical_gates>>.
final_flatten(gates, bosons, classical) ==
    LET a == flatten_multiple_vec(gates, bosons,
                                  RangeSeq(0, Len(gates)), RangeSeq(0, Len(bosons)))
        b == flatten_multiple_vec(a[1], classical,
                                  RangeSeq(0, Len(gates)), RangeSeq(0, Len(classical)))
        c == flatten_multiple_vec(a[2], b[2],
                                  RangeSeq(0, Len(bosons)), RangeSeq(0, Len(classical)))
    IN  <<b[1], c[1], c[2]>>

\* The cells joined into the output: the qubit tracks with their references
\* resolved, the bosonic and classical tracks as they are.
emit(gates, bosons, classical) ==
    [qubits |-> [q \in 1..Len(gates) |->
                    [i \in 1..Len(gates[q]) |->
                        resolve_gate(gates[q][i], Len(gates), Len(bosons), Len(classical))]],
     bosons |-> bosons,
     classical |-> classical]

\* One iteration of the loop over the circuit's operations.
AddGate ==
    /\ status = "placing"
    /\ Len(placed) < MaxOps
    /\ \E op \in family.menu :
          /\ placed' = Append(placed, op)
          /\ IF Skipped(family.render_pragmas, op)
             THEN UNCHANGED <<circuit_gates, bosonic_gates, classical_gates,
                              circuit_lock, bosonic_lock, classical_lock, status,
                              error>>
             ELSE \E next \in {add_gate(Current, op)} :
                      /\ circuit_gates' = next.circuit_gates
                      /\ bosonic_gates' = next.bosonic_gates
                      /\ classical_gates' = next.classical_gates
                      /\ circuit_lock' = next.circuit_lock
                      /\ bosonic_lock' = next.bosonic_lock
                      /\ classical_lock' = next.classical_lock
                      /\ status' = IF next.err = Ok THEN "placing" ELSE "error"
                      /\ error' = next.err
    /\ UNCHANGED <<typst_str, family, cancel_vars, resolve_vars, flatten_vars>>

\* The end of the circuit: the final flattening and the output.
Finish ==
    /\ status = "placing"
    /\ \E f \in {final_flatten(circuit_gates, bosonic_gates, classical_gates)} :
           /\ circuit_gates' = f[1]
           /\ bosonic_gates' = f[2]
           /\ classical_gates' = f[3]
           /\ typst_str' = emit(f[1], f[2], f[3])
    /\ status' = "done"
    /\ UNCHANGED <<circuit_lock, bosonic_lock, classical_lock, placed, error,
                   family, cancel_vars, resolve_vars, flatten_vars>>

(***************************************************************************)
(* The circuits handed to the driver.  A family is a set of operations the *)
(* circuit is drawn from and the render_pragmas argument of the call.      *)
(***************************************************************************)
GateMenu ==
    {Hadamard(0), Hadamard(1), Hadamard(2), CNOT(0, 2), CNOT(0, 4), SWAP(1, 3),
     XY(0, 2, "theta"), Toffoli(0, 1, 2)}

HybridMenu ==
    {Hadamard(0), Hadamard(1), CNOT(0, 2), Squeezing(0), DefinitionFloat("f"),
     BeamSplitter(0, 1), QuantumRabi(1, 0), Identity(0)}

MeasureMenu ==
    {DefinitionBit("ro"), DefinitionBit("ro2"), MeasureQubit(0, "ro", 0),
     MeasureQubit(1, "ro2", 1), MeasureQubit(1, "ro", 1), Hadamard(0), Squeezing(0),
     InputBit("ro", 0)}

GroupMenu ==
    {Hadamard(0), PragmaGlobalPhase("1"),
     PragmaLoop("2", <<Hadamard(0)>>),
     PragmaLoop("2", <<Hadamard(0), PragmaGlobalPhase("1")>>),
     PragmaLoop("2", <<PragmaLoop("2", <<Hadamard(1)>>)>>),
     PragmaConditional("ro", <<CNOT(0, 1)>>),
     PragmaLoop("2", <<>>),
     PragmaLoop("2", <<CallDefinedGate(<<0>>)>>),
     PragmaLoop("2", <<Hadamard(0),
                       PragmaConditional("ro", <<CallDefinedGate(<<1>>), Hadamard(1)>>)>>),
     CallDefinedGate(<<0>>),
     PragmaGetStateVector("ro", <<<<>>>>)}

RepeatMenu ==
    {DefinitionBit("ro"), Hadamard(1),
     PragmaRepeatedMeasurement("ro", "2", <<>>),
     PragmaRepeatedMeasurement("ro", "2", << <<>> >>),
     PragmaRepeatedMeasurement("ro", "2", << << <<0, 0>>, <<1, 1>> >> >>),
     PragmaRepeatedMeasurement("ro", "2", << << <<1, 1>>, <<0, 0>> >> >>)}

PragmaMenu ==
    {Hadamard(0), PragmaGlobalPhase("1"), PragmaLoop("2", <<Hadamard(0)>>),
     PragmaLoop("2", <<PragmaGlobalPhase("1")>>),
     PragmaConditional("ro", <<CNOT(0, 1)>>)}

\* A circuit that mixes a global marker with gates of all three domains.
MarkerMenu ==
    {Hadamard(1), PragmaGlobalPhase("1"), Squeezing(0), DefinitionBit("ro"),
     RotateX(1, "slice_t")}

\* Hybrid gates on two qubits and two modes, the higher mode locking the
\* lower one.
RabiMenu ==
    {QuantumRabi(1, 1), QuantumRabi(0, 0), CZQubitResonator(0, 0), Hadamard(1),
     Squeezing(0)}

Families ==
    {[menu |-> GateMenu, render_pragmas |-> RenderAll],
     [menu |-> RabiMenu, render_pragmas |-> RenderAll],
     [menu |-> MarkerMenu, render_pragmas |-> RenderAll],
     [menu |-> HybridMenu, render_pragmas |-> RenderAll],
     [menu |-> MeasureMenu, render_pragmas |-> RenderAll],
     [menu |-> GroupMenu, render_pragmas |-> RenderAll],
     [menu |-> RepeatMenu, render_pragmas |-> RenderAll],
     [menu |-> PragmaMenu, render_pragmas |-> RenderNone],
     [menu |-> PragmaMenu, render_pragmas |-> RenderPartial({"PragmaLoop"})]}

NoOutput == [qubits |-> <<>>, bosons |-> <<>>, classical |-> <<>>]

\* The driver before its loop: empty tracks and locks.
LayoutInit ==
    /\ circuit_gates = <<>> /\ bosonic_gates = <<>> /\ classical_gates = <<>>
    /\ circuit_lock = <<>> /\ bosonic_lock = <<>> /\ classical_lock = <<>>
    /\ status = "placing" /\ placed = <<>> /\ typst_str = NoOutput /\ error = Ok

\* The variables of the two other programs while they are not run.
CancelIdle ==
    /\ circuit = <<>> /\ position = 0 /\ last_gates = {} /\ new_circuit = <<>>
    /\ input = <<>> /\ phase = "idle" /\ returned = <<>>
ResolveIdle ==
    /\ gate = Filler /\ n_qubits = 0 /\ n_bosons = 0 /\ n_classical = 0
    /\ resolved = <<>>
FlattenIdle ==
    /\ callee = "idle" /\ flat_1 = <<>> /\ flat_2 = <<>> /\ ind_1 = <<>> /\ ind_2 = <<>>
    /\ flat_max_len = 0 /\ flat_pc = "done" /\ rounds = 0 /\ calls = 0
    /\ before = <<<<>>, <<>>>>
LayoutIdle ==
    /\ circuit_gates = <<>> /\ bosonic_gates = <<>> /\ classical_gates = <<>>
    /\ circuit_lock = <<>> /\ bosonic_lock = <<>> /\ classical_lock = <<>>
    /\ status = "idle" /\ placed = <<>> /\ typst_str = NoOutput /\ error = Ok
    /\ family = [menu |-> {}, render_pragmas |-> RenderAll]

Init == LayoutInit /\ family \in Families /\ CancelIdle /\ ResolveIdle /\ FlattenIdle
Next == AddGate \/ Finish
Spec == Init /\ [][Next]_vars

(***************************************************************************)
(* Properties of the layout engine.                                        *)
(***************************************************************************)
IsMarker(cell) == \E w \in Markers : Contains(cell, w)
IsContent(cell) == ~IsMarker(cell) /\ cell # Filler

\* The column of the cell at position i of a track: the effective length of
\* the track just before the cell was appended.
ColumnOf(track, i) == effective_len(SubSeq(track, 1, i - 1))

\* The cells of a track that sit at column c.
CellsAt(track, c) ==
    {track[i] : i \in {j \in 1..Len(track) : ~IsMarker(track[j]) /\ ColumnOf(track, j) = c}}

LastOp == placed[Len(placed)]

\* The last step handed an operation to add_gate, which returned Ok.
LastPlaced ==
    /\ status = "placing"
    /\ placed # <<>>
    /\ ~Skipped(family.render_pragmas, LastOp)

\* The qubit tracks and the mode tracks an operation names as its operands.
TouchedQubits(op) ==
    Range(used_qubits(circuit_gates, op))
TouchedModes(op) ==
    CASE op.k \in {"Squeezing", "QuantumRabi", "CZQubitResonator"} -> {op.mode}
      [] op.k = "BeamSplitter" -> {op.mode_0, op.mode_1}
      [] OTHER -> {}

Level(gates, tracks) ==
    \A a, b \in tracks :
        effective_len(Track(gates, a)) = effective_len(Track(gates, b))

\* C1: after every successful add_gate call, the tracks the operation touched
\* have equal effective length within each domain (its operand qubits among
\* the qubit tracks, its operand modes among the bosonic tracks).
C1_Synchronized ==
    LastPlaced =>
        /\ Level(circuit_gates, TouchedQubits(LastOp))
        /\ Level(bosonic_gates, TouchedModes(LastOp))

\* The content cells a step appended to the tracks of one domain sit at
\* columns that the domain's lock list does not hold for their track.  For
\* an operation without nested circuit the lock list is not changed after
\* the first content cell is appended, so the list after the step is the
\* list at the moment of the append.
Unlocked(old, new, lock) ==
    \A t \in 1..Len(new) :
        \A i \in ((IF t <= Len(old) THEN Len(old[t]) ELSE 0) + 1)..Len(new[t]) :
            IsContent(new[t][i]) =>
                \A j \in 1..Len(lock) : lock[j] # <<t - 1, ColumnOf(new[t], i)>>

\* C2: lock soundness: whenever add_gate appends a content cell that is not
\* filler to track t at column c, the lock list of the track's domain does
\* not contain (t, c) at that moment.
C2_LockSoundness ==
    [][(/\ status = "placing" /\ status' = "placing"
        /\ placed' # placed
        /\ LastOp'.k \notin CircuitKinds)
       => /\ Unlocked(circuit_gates, circuit_gates', circuit_lock')
          /\ Unlocked(bosonic_gates, bosonic_gates', bosonic_lock')
          /\ Unlocked(classical_gates, classical_gates', classical_lock')]_vars

\* The control links on the qubit tracks: <<control, target, column>>.
ControlLinks(gates) ==
    UNION {{<<t - 1, t - 1 + gates[t][i].n, ColumnOf(gates[t], i)>> :
               i \in {j \in 1..Len(gates[t]) :
                         gates[t][j].k = "ctrl" /\ gates[t][j].ref = NoRef}} :
           t \in 1..Len(gates)}

NoToffoli == \A i \in 1..Len(placed) : placed[i].k # "Toffoli"

\* C3: in the layout the driver returns, for every control link of a
\* control-target gate drawn at column c, every qubit track strictly between
\* control and target holds a filler cell at column c and the target cell
\* sits at column c, whatever was placed afterwards.
C3_LinkColumnKept ==
    (status = "done" /\ NoToffoli) =>
        \A link \in ControlLinks(circuit_gates) :
            /\ \A u \in (Min({link[1], link[2]}) + 1)..(Max({link[1], link[2]}) - 1) :
                   CellsAt(Track(circuit_gates, u), link[3]) = {Filler}
            /\ \E cell \in CellsAt(Track(circuit_gates, link[2]), link[3]) :
                   cell.k \in {"targ", "gate"}

\* The number of columns the nested circuit of a grouping operation adds to
\* the widest track of its span, between the layout after the bracket cell
\* (open) and the layout after the nested circuit (body).
ColumnsGrown(open, body, qubits) ==
    Max({effective_len(Track(body, qubits[i])) - effective_len(Track(open, qubits[i])) :
            i \in 1..Len(qubits)})

\* C4: bracket width: when a grouping operation is placed, the integer
\* written in place of replace_by_len is the number of columns (effective
\* length) its nested circuit added to the widest track of its span.
C4_BracketWidth ==
    [][\A op \in family.menu :
        (/\ status = "placing" /\ status' = "placing"
         /\ placed' = Append(placed, op)
         /\ op.k \in CircuitKinds /\ op.circuit # <<>>
         /\ ~Skipped(family.render_pragmas, op))
        => LET p == preamble(Current, op)
               qubits == group_qubits(prepare_for_slice(p), op)
               open == group_open(p, op, group_cell(op, qubits))
               body == run_circuit(open, op.circuit)
               cell == Track(circuit_gates', Head(qubits))
                           [Len(Track(open.circuit_gates, Head(qubits)))]
           IN  cell.ref = ValueRef(Digits(ColumnsGrown(open.circuit_gates,
                                                        body.circuit_gates, qubits)))
      ]_vars

\* The placeholder tokens.
Tokens == {"replace_by_len", "replace_by_n_qubits_plus_", "replace_by_classical_len_"}

\* The placeholder tokens in the cells of a list of tracks.
TokensIn(tracks) ==
    UNION {{tracks[t][i].ref.tok : i \in 1..Len(tracks[t])} : t \in 1..Len(tracks)}
    \cap Tokens

\* C6: after circuit_into_typst_str completes successfully, no cell of any
\* qubit, bosonic or classical track of the emitted layout contains a
\* placeholder token (replace_by_len, replace_by_n_qubits_plus_<n>,
\* replace_by_classical_len_<n>).
C6_NoPlaceholderLeft ==
    status = "done" =>
        /\ TokensIn(typst_str.qubits) = {}
        /\ TokensIn(typst_str.bosons) = {}
        /\ TokensIn(typst_str.classical) = {}

\* A finished run whose qubit tracks held a reference to a mode and a patched
\* bracket or a reference to a register before the output was written.
C6_Witness ==
    /\ status = "done"
    /\ "replace_by_n_qubits_plus_" \in TokensIn(circuit_gates)
    /\ TokensIn(typst_str.qubits) = {}

\* All tracks of the three domains.
AllTracks == circuit_gates \o bosonic_gates \o classical_gates

\* C7: when the driver finishes, all tracks of all three domains have the
\* same effective length.
C7_AllTracksLevel ==
    status = "done" =>
        \A a, b \in 1..Len(AllTracks) :
            effective_len(AllTracks[a]) = effective_len(AllTracks[b])

\* A finished run with tracks in all three domains, of which a bosonic and a
\* classical one were padded up to a qubit track of two columns or more.
C7_Witness ==
    /\ status = "done"
    /\ circuit_gates # <<>> /\ bosonic_gates # <<>> /\ classical_gates # <<>>
    /\ effective_len(AllTracks[1]) >= 2
    /\ \E t \in 1..Len(bosonic_gates) :
          bosonic_gates[t] # <<>> /\ bosonic_gates[t][Len(bosonic_gates[t])] = Filler
    /\ \E t \in 1..Len(classical_gates) :
          classical_gates[t][Len(classical_gates[t])] = Filler

\* C8: measuring qubit q into a register whose classical track exists
\* appends the meter to qubit track q and the control link to that classical
\* track at the same column (equal effective length just before and after
\* the two appends), the classical track gains exactly one cell that is not
\* filler, and the meter references the classical track's index.
C8_MeasureAligned ==
    [][\A op \in family.menu :
        (/\ status = "placing" /\ status' = "placing"
         /\ placed' = Append(placed, op)
         /\ op.k = "MeasureQubit"
         /\ find_register(classical_gates, op.readout) # -1)
        => LET index == find_register(classical_gates, op.readout)
               q == Track(circuit_gates', op.qubit)
               c == Track(classical_gates', index)
               old == Track(classical_gates, index)
           IN  /\ q[Len(q)] = MeterCell(op.qubit, index)
               /\ c[Len(c)].k = "ctrl"
               /\ ColumnOf(q, Len(q)) = ColumnOf(c, Len(c))
               /\ effective_len(q) = effective_len(c)
               /\ Cardinality({i \in (Len(old) + 1)..Len(c) : c[i] # Filler}) = 1
      ]_vars

\* A measurement into an existing register was placed after the register's
\* track had to be padded: the control link is not its first column.
C8_Witness ==
    /\ LastPlaced
    /\ LastOp.k = "MeasureQubit"
    /\ find_register(classical_gates, LastOp.readout) # -1
    /\ LET c == Track(classical_gates, find_register(classical_gates, LastOp.readout))
       IN  c[Len(c)].k = "ctrl" /\ ColumnOf(c, Len(c)) >= 1
    /\ bosonic_gates # <<>>

(***************************************************************************)
(* replace_boson_index and replace_classical_index as the driver calls     *)
(* them on one cell of a qubit track: the cell of a hybrid gate on qubit q *)
(* and mode m, or the meter of a measurement of q into register index.     *)
(***************************************************************************)
\* Largest mode or register index referenced.
MaxIndex == 11
\* Largest number of qubit tracks.
MaxQubits == 2

ResolveInit ==
    /\ n_qubits \in 1..MaxQubits
    /\ n_bosons \in 0..(MaxIndex + 1)
    /\ n_classical \in 0..(MaxIndex + 1)
    /\ gate \in {HybridCell(q, m) : q \in 0..(n_qubits - 1), m \in 0..(n_bosons - 1)}
                \cup {MeterCell(q, i) : q \in 0..(n_qubits - 1), i \in 0..(n_classical - 1)}
    /\ resolved = <<>>

ResolveGate ==
    /\ resolved = <<>>
    /\ resolved' = <<resolve_gate(gate, n_qubits, n_bosons, n_classical)>>
    /\ UNCHANGED <<gate, n_qubits, n_bosons, n_classical, layout_vars, cancel_vars,
                   flatten_vars>>

InitResolve == ResolveInit /\ LayoutIdle /\ CancelIdle /\ FlattenIdle
NextResolve == ResolveGate
SpecResolve == InitResolve /\ [][NextResolve]_vars

\* C5: every deferred reference is resolved to the documented absolute
\* index: replace_by_n_qubits_plus_m becomes the decimal n_qubits + m and
\* replace_by_classical_len_k becomes n_qubits + n_bosons + k, for every
\* index that can occur.
C5_AbsoluteIndex ==
    resolved # <<>> =>
        /\ gate.ref.tok = "replace_by_n_qubits_plus_" =>
              resolved[1].ref = ValueRef(Digits(n_qubits + NumberOf(gate.ref.d)))
        /\ gate.ref.tok = "replace_by_classical_len_" =>
              resolved[1].ref = ValueRef(Digits(n_qubits + n_bosons + NumberOf(gate.ref.d)))

(***************************************************************************)
(* remove_identities (qollage/src/backend.rs).  One step per operation of  *)
(* the circuit, one for the flush after the loop, then the comparison that *)
(* returns the new circuit or recurses on it.  The HashMap last_gates is   *)
(* the set of its entries; its iteration order is any order of its keys.   *)
(***************************************************************************)
\* Longest circuit handed to remove_identities.
MaxCircuit == 3

UNITARY_GATES == {"CNOT", "SWAP", "iSWAP", "ControlledPauliZ"}

\* The operations whose tags contain "TwoQubitGateOperation", among those
\* modelled; the last tag of an operation is its hqslang name.
TwoQubitGateOperation == {"CNOT", "SWAP", "ISwap", "ControlledPauliZ", "XY"}

\* The test of the first if of the loop body.
is_unitary_gate(op) == op.k \in TwoQubitGateOperation /\ op.k \in UNITARY_GATES

\* All the orders in which the elements of a finite set can be listed.
RECURSIVE Orders(_)
Orders(S) ==
    IF S = {} THEN {<<>>}
    ELSE UNION {{<<x>> \o rest : rest \in Orders(S \ {x})} : x \in S}

Keys(map) == {e.key : e \in map}
Get(map, key) == CHOOSE e \in map : e.key = key

\* HashMap::insert
Insert(map, key, val) ==
    {e \in map : e.key # key} \cup {[key |-> key, val |-> val]}

\* Variant of the guard that accepts any pending gate.
any_name(name, op) == TRUE

\* name == op.hqslang() in the guard of the first match arm.
same_name(name, op) == name = op.k

\* Variant of the first match arm that accepts a pending gate of the same
\* name on any pair.
cancels_any_key(map, key, op) ==
    \E e \in map : e.val # <<>> /\ same_name(e.val[1].k, op)

\* The pending entry of the pair holds a gate of the same name as op.
cancels(map, key, op) ==
    /\ key \in Keys(map)
    /\ Get(map, key).val # <<>>
    /\ same_name(Get(map, key).val[1].k, op)

\* The keys of map that contain a qubit of qubits.
Sharing(map, qubits) == {key \in Keys(map) : {key[1], key[2]} \cap qubits # {}}

\* The flush loop over last_gates.clone() for the key order given: the
\* pending gates emitted, in order.
RECURSIVE Emitted(_, _)
Emitted(map, order) ==
    IF order = <<>> THEN <<>>
    ELSE Get(map, Head(order)).val \o Emitted(map, Tail(order))

\* The map after the flush loop: every key sharing a qubit is set to None.
Cleared(map, keys) ==
    {IF e.key \in keys THEN [key |-> e.key, val |-> <<>>] ELSE e : e \in map}

\* The qubits remove_identities collects from involved_qubits() of an
\* operation that is not on the list: none when the operation involves all.
flush_qubits(op) ==
    IF involved_qubits(op).all THEN {} ELSE involved_qubits(op).set

\* The match on op of a listed gate without the ControlledPauliZ arm.
qubits_of_without_cpz(op) ==
    IF op.k \in {"CNOT", "SWAP", "ISwap"}
    THEN <<<<op.control, op.target>>>> ELSE <<>>

\* let qubits = match op { ... }: <<(control, target)>> for the four kinds that
\* have an arm, <<>> for the arm that returns Err(GenericError).
qubits_of(op) ==
    IF op.k \in {"CNOT", "SWAP", "ISwap", "ControlledPauliZ"}
    THEN <<<<op.control, op.target>>>> ELSE <<>>

\* The loop body for circuit[position].
Iterate ==
    /\ phase = "iter"
    /\ position <= Len(circuit)
    /\ LET op == circuit[position]
       IN  IF is_unitary_gate(op)
           THEN IF qubits_of(op) = <<>>
                THEN /\ phase' = "error"
                     /\ UNCHANGED <<last_gates, new_circuit>>
                ELSE LET key == qubits_of(op)[1]
                     IN  /\ phase' = phase
                         /\ IF cancels(last_gates, key, op)
                            THEN /\ last_gates' = Insert(last_gates, key, <<>>)
                                 /\ new_circuit' = new_circuit
                            ELSE \E order \in Orders(Sharing(last_gates, {key[1], key[2]})) :
                                    /\ new_circuit' = new_circuit \o Emitted(last_gates, order)
                                    /\ last_gates' =
                                          Insert(Cleared(last_gates, Range(order)), key, <<op>>)
           ELSE /\ phase' = phase
                /\ \E order \in Orders(Sharing(last_gates, flush_qubits(op))) :
                      /\ new_circuit' = new_circuit \o Emitted(last_gates, order) \o <<op>>
                      /\ last_gates' = Cleared(last_gates, Range(order))
    /\ position' = position + 1
    /\ UNCHANGED <<circuit, input, returned, layout_vars, resolve_vars, flatten_vars>>

\* After the loop: every gate still pending is emitted, in the map's order.
Flush ==
    /\ phase = "iter"
    /\ position > Len(circuit)
    /\ \E order \in Orders(Keys(last_gates)) :
          new_circuit' = new_circuit \o Emitted(last_gates, order)
    /\ phase' = "compare"
    /\ UNCHANGED <<circuit, position, last_gates, input, returned,
                   layout_vars, resolve_vars, flatten_vars>>

\* new_circuit.eq(&circuit): Ok(new_circuit).
Return ==
    /\ phase = "compare"
    /\ new_circuit = circuit
    /\ phase' = "done"
    /\ returned' = Append(returned, new_circuit)
    /\ UNCHANGED <<circuit, position, last_gates, new_circuit, input,
                   layout_vars, resolve_vars, flatten_vars>>

\* Otherwise remove_identities(new_circuit).
Recurse ==
    /\ phase = "compare"
    /\ new_circuit # circuit
    /\ circuit' = new_circuit
    /\ position' = 1
    /\ last_gates' = {}
    /\ new_circuit' = <<>>
    /\ phase' = "iter"
    /\ UNCHANGED <<input, returned, layout_vars, resolve_vars, flatten_vars>>

\* The operations the circuits handed to remove_identities are made of.
CancelMenu ==
    {CNOT(0, 1), SWAP(0, 1), SWAP(1, 0), ISwap(0, 1), ControlledPauliZ(0, 1),
     CNOT(1, 2), CNOT(2, 3), Hadamard(0), Hadamard(2),
     PragmaRepeatedMeasurement("ro", "2", <<>>)}

\* The sequences over S of length at most n.
RECURSIVE SeqsUpTo(_, _)
SeqsUpTo(S, n) ==
    IF n = 0 THEN {<<>>}
    ELSE SeqsUpTo(S, n - 1)
         \cup {Append(c, x) : c \in {d \in SeqsUpTo(S, n - 1) : Len(d) = n - 1}, x \in S}

\* A circuit that holds one gate of every kind named by UNITARY_GATES.
AllListedKinds == <<CNOT(0, 1), SWAP(0, 1), ISwap(0, 1), ControlledPauliZ(0, 1)>>

CancelInit ==
    /\ input \in SeqsUpTo(CancelMenu, MaxCircuit) \cup {AllListedKinds}
    /\ circuit = input
    /\ position = 1
    /\ last_gates = {}
    /\ new_circuit = <<>>
    /\ phase = "iter"
    /\ returned = <<>>

InitCancel == CancelInit /\ LayoutIdle /\ ResolveIdle /\ FlattenIdle
NextCancel == Iterate \/ Flush \/ Return \/ Recurse
SpecCancel == InitCancel /\ [][NextCancel]_vars

\* The four gate kinds the list of remove_identities names.
CancellableKinds == {"CNOT", "SWAP", "ISwap", "ControlledPauliZ"}

\* The qubit pair a two-qubit gate acts on.
Pair(op) == {op.control, op.target}

\* C9: maximal adjacent-pair cancellation: the circuit remove_identities
\* returns holds no two gates of the same cancellable kind on the same qubit
\* pair with no operation between them that shares a qubit with the pair.
C9_MaximalCancellation ==
    phase = "done" =>
        ~\E i, j \in 1..Len(new_circuit) :
            /\ i < j
            /\ new_circuit[i].k \in CancellableKinds
            /\ new_circuit[i].k = new_circuit[j].k
            /\ Pair(new_circuit[i]) = Pair(new_circuit[j])
            /\ \A m \in (i + 1)..(j - 1) :
                   flush_qubits(new_circuit[m]) \cap Pair(new_circuit[i]) = {}

\* A circuit of cancellable gates on one qubit pair in which neighbours
\* differ in kind.
Alternating(ops) ==
    /\ Len(ops) >= 2
    /\ \A i \in 1..Len(ops) :
          ops[i].k \in CancellableKinds /\ Pair(ops[i]) = Pair(ops[1])
    /\ \A i \in 1..(Len(ops) - 1) : ops[i].k # ops[i + 1].k

\* C10: two cancellable gates of different kinds on the same qubit pair are
\* both kept, each exactly once and in their original order: a circuit of
\* such gates comes back unchanged.
C10_DifferentKindsKept ==
    (phase = "done" /\ Alternating(input)) => new_circuit = input

\* remove_identities returned for CNOT(a,b) followed by SWAP(a,b).
C10_Witness ==
    /\ phase = "done"
    /\ Len(input) = 2
    /\ Alternating(input)
    /\ input[1].k = "CNOT" /\ input[2].k = "SWAP"
    /\ <<input[1].control, input[1].target>> = <<input[2].control, input[2].target>>

\* The operation touches a qubit of the pair: an operation that involves all
\* qubits touches every pair.
Touches(op, key) ==
    involved_qubits(op).all \/ involved_qubits(op).set \cap {key[1], key[2]} # {}

\* C11: a pending cancellable gate is emitted before any later operation that
\* touches one of its qubits, operations on all qubits included: once the loop
\* body has handled an operation, no gate is left pending on another pair that
\* the operation touches.
C11_FlushBeforeTouch ==
    [][(phase = "iter" /\ position' = position + 1) =>
          \A e \in last_gates' :
             (/\ Touches(circuit[position], e.key)
              /\ ~(/\ is_unitary_gate(circuit[position])
                    /\ e.key = <<circuit[position].control, circuit[position].target>>))
             => e.val = <<>>]_vars

\* remove_identities keeps running until it returns: the loop, the flush and
\* the comparison are steps of one call chain that is never suspended.
SpecCancelFair == SpecCancel /\ WF_vars(NextCancel)

\* C12: remove_identities terminates on every finite circuit, whatever order
\* the pending gates are flushed in: the recursion eventually returns.
C12_Terminates == <>(phase = "done")

\* A round never emits more operations than it was given.
C12_NeverLonger == phase = "compare" => Len(new_circuit) <= Len(circuit)

\* The caller hands the circuit it got back to remove_identities once more
\* (remove_two_qubit_gates_identities applied to its own output).
CallAgain ==
    /\ phase = "done"
    /\ Len(returned) = 1
    /\ circuit' = returned[1]
    /\ position' = 1
    /\ last_gates' = {}
    /\ new_circuit' = <<>>
    /\ phase' = "iter"
    /\ UNCHANGED <<input, returned, layout_vars, resolve_vars, flatten_vars>>

NextTwice == Iterate \/ Flush \/ Return \/ Recurse \/ CallAgain
SpecTwice == InitCancel /\ [][NextTwice]_vars

\* C13: the cancellation pass applied to its own output returns it unchanged.
C13_FixedPoint == Len(returned) = 2 => returned[2] = returned[1]

\* C14: the pending gate is tracked per unordered qubit pair: two adjacent
\* gates of one kind of the list on the same two qubits cancel, whichever of
\* the two qubits each names as control, and the empty circuit is returned.
C14_UnorderedPair ==
    (/\ phase = "done"
     /\ Len(input) = 2
     /\ is_unitary_gate(input[1])
     /\ input[2].k = input[1].k
     /\ Pair(input[2]) = Pair(input[1]))
    => new_circuit = <<>>

\* The Pragma operation whose placement rule writes the cell, "" for a cell
\* that no Pragma rule writes.
PragmaOf(cell) ==
    CASE cell.k = "slice" /\ cell.lbl = "GlobalPhase" -> "PragmaGlobalPhase"
      [] cell.k = "gategroup" /\ cell.lbl = "Loop" -> "PragmaLoop"
      [] cell.k = "gategroup" /\ cell.lbl = "Conditional" -> "PragmaConditional"
      [] OTHER -> ""

\* The Pragma operations that have a cell in the layout.
PragmasDrawn ==
    UNION {{PragmaOf(circuit_gates[q][i]) : i \in 1..Len(circuit_gates[q])} :
              q \in 1..Len(circuit_gates)}
    \ {""}

\* C15: the pragma filter: under RenderPragmas::None no Pragma operation has
\* a cell in the layout, and under RenderPragmas::Partial(names) only the
\* Pragma operations of names have one, nested ones included.
C15_PragmaFilter ==
    /\ family.render_pragmas.mode = "None" => PragmasDrawn = {}
    /\ family.render_pragmas.mode = "Partial" =>
           PragmasDrawn \subseteq family.render_pragmas.pragmas

\* The operation kinds that have a match arm in add_gate.
PlacementRules ==
    {"Hadamard", "Identity", "CNOT", "SWAP", "ISwap", "ControlledPauliZ", "XY",
     "Toffoli", "PragmaGlobalPhase", "PragmaLoop", "PragmaConditional",
     "MeasureQubit", "DefinitionBit", "InputBit", "Squeezing", "BeamSplitter",
     "QuantumRabi", "CZQubitResonator", "RotateX", "PragmaRepeatedMeasurement",
     "PragmaGetStateVector"}

\* The kind name of the first operation, in the order the driver reaches
\* them, that has no placement rule and is not ignored: op itself or an
\* operation nested in it; "" when there is none.
RECURSIVE FirstUnplaceable(_)
RECURSIVE FirstUnplaceableIn(_)
FirstUnplaceableIn(ops) ==
    IF ops = <<>> THEN ""
    ELSE IF FirstUnplaceable(Head(ops)) # "" THEN FirstUnplaceable(Head(ops))
         ELSE FirstUnplaceableIn(Tail(ops))
FirstUnplaceable(op) ==
    IF op.k \in CircuitKinds THEN FirstUnplaceableIn(op.circuit)
    ELSE IF op.k \in PlacementRules \cup ALLOWED_OPERATIONS THEN ""
         ELSE op.k

\* C16: when an operation the driver reaches, nested at any depth, has no
\* placement rule and is not an ignored definition, the conversion returns
\* OperationNotInBackend with that operation's kind name, unchanged by the
\* enclosing groups, and emits no layout.
C16_ErrorPropagates ==
    (/\ placed # <<>>
     /\ ~Skipped(family.render_pragmas, LastOp)
     /\ FirstUnplaceable(LastOp) # "")
    => /\ status = "error"
       /\ error = <<"OperationNotInBackend", FirstUnplaceable(LastOp)>>
       /\ typst_str = NoOutput

\* The conversion failed on an operation nested two groups deep, after other
\* operations were placed.
C16_Witness ==
    /\ status = "error"
    /\ Len(placed) >= 2
    /\ LastOp.k = "PragmaLoop"
    /\ Len(LastOp.circuit) = 2
    /\ LastOp.circuit[2].k = "PragmaConditional"
    /\ error = <<"OperationNotInBackend", "CallDefinedGate">>

\* A grouping operation whose nested circuit is empty.
EmptyGroup(op) ==
    \/ op.k \in CircuitKinds /\ op.circuit = <<>>
    \/ op.k = "PragmaGetStateVector" /\ op.circuit = <<<<>>>>

\* No cell was appended to a track of old: new holds the tracks of old
\* unchanged, and any further track of new is empty.
NoCellAdded(old, new) ==
    /\ Len(new) >= Len(old)
    /\ \A t \in 1..Len(new) : new[t] = IF t <= Len(old) THEN old[t] ELSE <<>>

\* C17: placing a grouping operation whose nested circuit is empty is a
\* no-op: add_gate returns Ok, appends no cell to any track and adds no lock.
C17_EmptyGroupNoOp ==
    [][(/\ status = "placing"
        /\ placed' # placed
        /\ ~Skipped(family.render_pragmas, LastOp')
        /\ EmptyGroup(LastOp'))
       => /\ status' = "placing"
          /\ NoCellAdded(circuit_gates, circuit_gates')
          /\ NoCellAdded(bosonic_gates, bosonic_gates')
          /\ NoCellAdded(classical_gates, classical_gates')
          /\ circuit_lock' = circuit_lock
          /\ bosonic_lock' = bosonic_lock
          /\ classical_lock' = classical_lock]_vars

\* A grouping operation whose nested circuit is not empty and touches no
\* qubit.
NoQubitGroup(op) ==
    /\ op.k \in CircuitKinds
    /\ op.circuit # <<>>
    /\ ~involved_qubits(op).all
    /\ involved_qubits(op).set = {}

\* C18: a grouping operation whose non-empty nested circuit touches no qubit
\* makes add_gate return an error, never success.
C18_NoQubitIsError ==
    [][(/\ status = "placing"
        /\ placed' # placed
        /\ ~Skipped(family.render_pragmas, LastOp')
        /\ NoQubitGroup(LastOp'))
       => status' = "error"]_vars

\* The operation with the entries of its mapping listed by ascending qubit:
\* the same operation, held by a HashMap that iterates in that order.
RECURSIVE SortEntries(_)
SortEntries(entries) ==
    IF entries = <<>> THEN <<>>
    ELSE LET first == CHOOSE e \in Range(entries) :
                          \A f \in Range(entries) : e[1] <= f[1]
         IN  <<first>> \o SortEntries(SelectSeq(entries, LAMBDA e : e # first))

Ascending(op) ==
    IF op.k = "PragmaRepeatedMeasurement" /\ op.qubit_mapping # <<>>
    THEN [op EXCEPT !.qubit_mapping = <<SortEntries(@[1])>>]
    ELSE op

\* The preamble of add_gate leaves the same layout whatever order the
\* involved-qubit set is iterated in.
PreambleOrderFree ==
    [][(status = "placing" /\ placed' # placed) =>
          \A order \in Orders(involved_qubits(LastOp').set) :
             involved_qubits(LastOp').all
             \/ preamble_in(Current, order) = preamble(Current, LastOp')]_vars

\* C19: determinism: the layout an operation leaves depends on the operation
\* and the layout before it only, not on the order in which a HashMap the
\* operation carries is iterated: the step leaves the layout that the same
\* operation leaves when its mapping iterates by ascending qubit.
C19_Deterministic ==
    [][(/\ status = "placing"
        /\ placed' # placed
        /\ ~Skipped(family.render_pragmas, LastOp'))
       => \E next \in {add_gate(Current, Ascending(LastOp'))} :
             /\ circuit_gates' = next.circuit_gates
             /\ bosonic_gates' = next.bosonic_gates
             /\ classical_gates' = next.classical_gates
             /\ circuit_lock' = next.circuit_lock
             /\ bosonic_lock' = next.bosonic_lock
             /\ classical_lock' = next.classical_lock
             /\ error' = next.err]_vars

\* The single-qubit gate kinds modelled.
SingleQubitGates == {"Hadamard", "Identity"}

\* new is old followed by fillers and then one content cell.
OneContentAppended(old, new) ==
    /\ Len(new) > Len(old)
    /\ SubSeq(new, 1, Len(old)) = old
    /\ \A i \in (Len(old) + 1)..(Len(new) - 1) : new[i] = Filler
    /\ IsContent(new[Len(new)])

\* C20: a single-qubit gate on qubit q appends exactly one content cell to
\* qubit track q, preceded only by filler for drained locks, appends nothing
\* to any other track, creates only the qubit tracks up to q and creates no
\* bosonic or classical track.
C20_SingleQubitGate ==
    [][(/\ status = "placing"
        /\ placed' # placed
        /\ LastOp'.k \in SingleQubitGates)
       => LET q == LastOp'.qubit
          IN  /\ status' = "placing"
              /\ Len(circuit_gates') = Max({Len(circuit_gates), q + 1})
              /\ OneContentAppended(IF q < Len(circuit_gates)
                                    THEN Track(circuit_gates, q) ELSE <<>>,
                                    Track(circuit_gates', q))
              /\ \A t \in 0..(Len(circuit_gates') - 1) :
                     t # q => Track(circuit_gates', t) =
                                 IF t < Len(circuit_gates)
                                 THEN Track(circuit_gates, t) ELSE <<>>
              /\ bosonic_gates' = bosonic_gates
              /\ classical_gates' = classical_gates]_vars

(***************************************************************************)
(* Global markers.                                                         *)
(***************************************************************************)
GlobalMarkers == {"PragmaGlobalPhase"}

LastCell(track) == track[Len(track)]

MarkerPlaced == LastPlaced /\ LastOp.k \in GlobalMarkers

\* C21: after a global marker is placed, every existing track of every
\* domain has the same effective length, and the marker's slice cell is the
\* last cell of qubit track 0 and of no other track.
C21_MarkerLevelsAll ==
    MarkerPlaced =>
        /\ \A a, b \in 1..Len(AllTracks) :
              effective_len(AllTracks[a]) = effective_len(AllTracks[b])
        /\ LastCell(circuit_gates[1]).k = "slice"
        /\ \A t \in 2..Len(AllTracks) :
              AllTracks[t] # <<>> => LastCell(AllTracks[t]).k # "slice"

\* The maximum effective length over the qubit tracks.
MaxEffectiveLen(gates) == Max({effective_len(gates[i]) : i \in 1..Len(gates)})

\* C22: placing a global marker never makes the maximum effective length
\* over the qubit tracks larger than it was before the call; the marker pads
\* shorter tracks up to that maximum and consumes no column of its own, also
\* on an empty layout and when track 0 already ends in an annotation.
C22_MarkerNoColumn ==
    [][(/\ status = "placing"
        /\ placed' # placed
        /\ MarkerPlaced')
       => MaxEffectiveLen(circuit_gates') <= MaxEffectiveLen(circuit_gates)]_vars

(***************************************************************************)
(* flatten_qubits and flatten_multiple_vec, one iteration of the while     *)
(* loop per step.  flatten_qubits(circuit_gates, qubits) runs on flat_1    *)
(* and ind_1; flat_2 is then a domain the call was not given.              *)
(***************************************************************************)
MaxTrackLen == 2
MaxRounds == 4

FlattenCells == {Cell("glyph", "H", "", 0, NoRef),
                 Cell("slice", "GlobalPhase", "1", 0, NoRef)}

\* The effective lengths of the listed tracks of both lists.
ListedLens(g1, g2, i1, i2) ==
    {effective_len(Track(g1, i1[i])) : i \in 1..Len(i1)}
    \cup {effective_len(Track(g2, i2[i])) : i \in 1..Len(i2)}

flatten_target_plus_one(g1, g2, i1, i2) == Max(ListedLens(g1, g2, i1, i2)) + 1

\* let max_len = ... .max().unwrap_or(0)
flatten_target(g1, g2, i1, i2) == Max(ListedLens(g1, g2, i1, i2))

flatten_continue_first(g1, g2, i1, i2, m) ==
    i1 # <<>> /\ effective_len(Track(g1, i1[1])) # m

\* The condition of the while loop: .any(|length| length != max_len)
flatten_continue(g1, g2, i1, i2, m) ==
    \E l \in ListedLens(g1, g2, i1, i2) : l # m

FlattenInit ==
    /\ flat_1 \in [1..2 -> SeqsUpTo(FlattenCells, MaxTrackLen)]
    /\ flat_2 \in [1..1 -> SeqsUpTo(FlattenCells, MaxTrackLen)]
    /\ \/ /\ callee = "flatten_qubits"
          /\ ind_1 \in {<<0>>, <<0, 1>>, <<1, 0, 1>>}
          /\ ind_2 = <<>>
       \/ /\ callee = "flatten_multiple_vec"
          /\ ind_1 \in {<<>>, <<0, 1>>, <<1, 1>>}
          /\ ind_2 \in {<<>>, <<0>>}
    /\ flat_max_len = 0 /\ flat_pc = "call" /\ rounds = 0 /\ calls = 0
    /\ before = <<flat_1, flat_2>>

\* Entry of the function: max_len is computed once.
FlattenCall ==
    /\ flat_pc = "call"
    /\ flat_max_len' = flatten_target(flat_1, flat_2, ind_1, ind_2)
    /\ before' = <<flat_1, flat_2>>
    /\ rounds' = 0
    /\ flat_pc' = "while"
    /\ UNCHANGED <<callee, flat_1, flat_2, ind_1, ind_2, calls,
                   layout_vars, cancel_vars, resolve_vars>>

\* One iteration of the while loop: the for loop over the first index list,
\* then the one over the second.
FlattenRound ==
    /\ flat_pc = "while"
    /\ rounds < MaxRounds
    /\ flatten_continue(flat_1, flat_2, ind_1, ind_2, flat_max_len)
    /\ flat_1' = FlattenPass(flat_1, ind_1, flat_max_len)
    /\ flat_2' = FlattenPass(flat_2, ind_2, flat_max_len)
    /\ rounds' = rounds + 1
    /\ UNCHANGED <<callee, ind_1, ind_2, flat_max_len, flat_pc, calls, before,
                   layout_vars, cancel_vars, resolve_vars>>

\* The while condition is false: the function returns.
FlattenReturn ==
    /\ flat_pc = "while"
    /\ ~flatten_continue(flat_1, flat_2, ind_1, ind_2, flat_max_len)
    /\ flat_pc' = "done"
    /\ calls' = calls + 1
    /\ UNCHANGED <<callee, flat_1, flat_2, ind_1, ind_2, flat_max_len, rounds,
                   before, layout_vars, cancel_vars, resolve_vars>>

\* The caller calls the function once more with the same arguments.
FlattenAgain ==
    /\ flat_pc = "done"
    /\ calls = 1
    /\ flat_pc' = "call"
    /\ UNCHANGED <<callee, flat_1, flat_2, ind_1, ind_2, flat_max_len, rounds,
                   calls, before, layout_vars, cancel_vars, resolve_vars>>

InitFlatten == FlattenInit /\ LayoutIdle /\ CancelIdle /\ ResolveIdle
NextFlatten == FlattenCall \/ FlattenRound \/ FlattenReturn \/ FlattenAgain
SpecFlatten == InitFlatten /\ [][NextFlatten]_vars

\* The stepped loop returns what the operators used by add_gate compute.
FlattenAgrees ==
    flat_pc = "done" =>
        IF callee = "flatten_qubits"
        THEN flat_1 = flatten_qubits(before[1], ind_1) /\ flat_2 = before[2]
        ELSE <<flat_1, flat_2>> = flatten_multiple_vec(before[1], before[2], ind_1, ind_2)

\* new is old followed by n filler cells.
PaddedBy(old, new, n) == new = old \o [i \in 1..n |-> Filler]

\* The postcondition and frame of a flatten call on one track list.
Flattened(old, new, listed, max) ==
    /\ Len(new) = Len(old)
    /\ \A q \in 0..(Len(old) - 1) :
          IF q \in listed
          THEN /\ effective_len(Track(new, q)) = max
               /\ PaddedBy(Track(old, q), Track(new, q),
                           max - effective_len(Track(old, q)))
          ELSE Track(new, q) = Track(old, q)

C24_FlattenIdempotent ==
    (flat_pc = "done" /\ calls = 2) =>
        /\ <<flat_1, flat_2>> = before
        /\ rounds = 0

\* A second call that returned, on tracks of two domains of which the first
\* call had padded one, a listed track holding an annotation cell.
C24_Witness ==
    /\ flat_pc = "done" /\ calls = 2
    /\ callee = "flatten_multiple_vec" /\ ind_1 = <<1, 1>> /\ ind_2 = <<0>>
    /\ flat_2[1] # <<>> /\ LastCell(flat_2[1]) = Filler
    /\ \E i \in 1..Len(flat_1[2]) : IsMarker(flat_1[2][i])

\* The loop is never suspended: a call that was made runs until it returns.
SpecFlattenFair == SpecFlatten /\ WF_vars(NextFlatten)

\* C25: flatten terminates: the padding loop makes at most max_len rounds
\* (max_len the maximum effective length of the listed tracks at the call)
\* and every call returns, for every track content including annotations.
C25_FlattenTerminates ==
    /\ [](rounds <= flat_max_len)
    /\ (flat_pc = "call") ~> (flat_pc = "done")

\* A call that returned after max_len = 2 rounds on tracks holding an
\* annotation cell.
C25_Witness ==
    /\ flat_pc = "done" /\ calls = 1
    /\ rounds = 2 /\ flat_max_len = 2
    /\ \E t \in 1..Len(flat_1) : \E i \in 1..Len(flat_1[t]) : IsMarker(flat_1[t][i])

(***************************************************************************)
(* Frame properties of add_gate.                                           *)
(***************************************************************************)
\* A cell is kept, or it is a bracket cell whose placeholder width token was
\* replaced by a number.
KeptOrPatched(old, new) ==
    \/ new = old
    \/ /\ old.k = "gategroup" /\ old.ref = LenRef
       /\ new.ref.tok = "value"
       /\ new = [old EXCEPT !.ref = new.ref]

\* The tracks of one domain before and after a step.
AppendOnly(old, new) ==
    /\ Len(new) >= Len(old)
    /\ \A t \in 1..Len(old) :
          /\ Len(new[t]) >= Len(old[t])
          /\ \A i \in 1..Len(old[t]) : KeptOrPatched(old[t][i], new[t][i])
          /\ effective_len(new[t]) >= effective_len(old[t])

\* C26: tracks are append-only: the number of tracks of a domain never
\* decreases, the cells a track held before a call are a prefix of the cells
\* it holds after it (but for the placeholder width token of a placed bracket
\* cell, rewritten in place), and no effective length decreases.
C26_AppendOnly ==
    [][/\ AppendOnly(circuit_gates, circuit_gates')
       /\ AppendOnly(bosonic_gates, bosonic_gates')
       /\ AppendOnly(classical_gates, classical_gates')]_vars

\* A grouping operation was placed on tracks that held cells already: its
\* bracket cell was patched in place and a higher track exists.
C26_Witness ==
    /\ LastPlaced
    /\ Len(placed) >= 3
    /\ LastOp.k = "PragmaLoop"
    /\ Len(circuit_gates) >= 2
    /\ \E i \in 2..Len(circuit_gates[1]) :
          circuit_gates[1][i].k = "gategroup" /\ circuit_gates[1][i].ref.tok = "value"

C28_DeclarationInvisible ==
    [][(/\ status = "placing"
        /\ placed' # placed
        /\ LastOp'.k \in ALLOWED_OPERATIONS)
       => /\ status' = "placing"
          /\ UNCHANGED <<circuit_gates, bosonic_gates, classical_gates,
                         circuit_lock, bosonic_lock, classical_lock>>]_vars

(***************************************************************************)
(* Hybrid qubit-boson gates.                                               *)
(***************************************************************************)
HybridGates == {"QuantumRabi", "CZQubitResonator"}

\* C29: for a hybrid qubit-boson gate the cell appended to the qubit track
\* and the paired cell appended to the mode track land at the same column:
\* the two tracks have equal effective length just before the two appends
\* and after them.
C29_HybridAligned ==
    [][(/\ status = "placing"
        /\ placed' # placed
        /\ LastOp'.k \in HybridGates)
       => LET q == Track(circuit_gates', LastOp'.qubit)
              m == Track(bosonic_gates', LastOp'.mode)
          IN  /\ status' = "placing"
              /\ LastCell(q).ref = BosonRef(LastOp'.mode)
              /\ LastCell(m).k = "gate"
              /\ effective_len(q) = effective_len(m)
              /\ ColumnOf(q, Len(q)) = ColumnOf(m, Len(m))]_vars

(***************************************************************************)
(* Multi-track box gates.                                                  *)
(***************************************************************************)
BoxGates == {"XY", "BeamSplitter"}

\* The tracks of its own domain a box gate spans: <<min, max>>.
BoxSpan(op) ==
    IF op.k = "BeamSplitter"
    THEN <<Min({op.mode_0, op.mode_1}), Max({op.mode_0, op.mode_1})>>
    ELSE <<Min({op.control, op.target}), Max({op.control, op.target})>>

\* The box on track min, a filler on every track of (min, max], all level.
Boxed(gates, span) ==
    /\ Len(gates) > span[2]
    /\ \A t \in span[1]..span[2] :
          /\ Track(gates, t) # <<>>
          /\ LastCell(Track(gates, t)) =
                IF t = span[1] THEN LastCell(Track(gates, span[1])) ELSE Filler
          /\ effective_len(Track(gates, t)) = effective_len(Track(gates, span[1]))
    /\ LastCell(Track(gates, span[1])).k = "mqgate"

\* C30: a multi-track box gate spanning [min, max] places one box cell on
\* track min of its own domain and one filler on every other track of that
\* domain in (min, max], so that all tracks of the domain in [min, max] have
\* the same effective length, one more than their levelled length before the
\* box.
C30_BoxGate ==
    [][(/\ status = "placing"
        /\ placed' # placed
        /\ LastOp'.k \in BoxGates)
       => /\ status' = "placing"
          /\ Boxed(IF LastOp'.k = "BeamSplitter" THEN bosonic_gates' ELSE circuit_gates',
                   BoxSpan(LastOp'))
          /\ LastOp'.k = "BeamSplitter" => circuit_gates' = circuit_gates]_vars

(***************************************************************************)
(* Purely bosonic operations.                                              *)
(***************************************************************************)
BosonicGates == {"Squeezing", "BeamSplitter"}

\* C31: a purely bosonic operation leaves the qubit domain unchanged: it
\* appends no cell to any qubit track and creates no qubit track, and it
\* leaves the classical tracks unchanged.
C31_BosonicFrame ==
    [][(/\ status = "placing"
        /\ placed' # placed
        /\ LastOp'.k \in BosonicGates)
       => /\ circuit_gates' = circuit_gates
          /\ classical_gates' = classical_gates]_vars

(***************************************************************************)
(* The units of the locks.                                                 *)
(***************************************************************************)
\* The last n entries of a lock list all hold the given column.
LastLocksAt(lock, n, column) ==
    /\ Len(lock) >= n
    /\ \A i \in (Len(lock) - n + 1)..Len(lock) : lock[i][2] = column

\* C32: every lock is recorded in effective-length units: the locks a
\* measurement into a register pushes on the qubit tracks, the mode tracks
\* and the classical tracks above the register all hold the effective length
\* (annotation cells excluded) at which the link of the measurement is drawn.
C32_LockUnits ==
    [][\A op \in family.menu :
        (/\ status = "placing" /\ status' = "placing"
         /\ placed' = Append(placed, op)
         /\ op.k = "MeasureQubit"
         /\ find_register(classical_gates, op.readout) # -1)
        => LET index == find_register(classical_gates, op.readout)
               c == Track(classical_gates', index)
               column == ColumnOf(c, Len(c))
           IN  /\ LastLocksAt(circuit_lock',
                              Len(circuit_gates') + LockAhead - op.qubit, column)
               /\ LastLocksAt(bosonic_lock', Len(bosonic_gates') + LockAhead, column)
               /\ LastLocksAt(classical_lock', index, column)
      ]_vars

(***************************************************************************)
(* Registers: MeasureQubit and InputBit.                                   *)
(***************************************************************************)
\* The classical tracks of the register defined with exactly this name.
RegistersNamed(classical, name) ==
    {i \in 0..(Len(classical) - 1) : Track(classical, i)[1] = RegisterLabel(name)}

\* Every entry of the lock list new is an entry of old.
NoLockAdded(old, new) == Range(new) \subseteq Range(old) /\ Len(new) <= Len(old)

\* C33: measuring qubit q into a register name for which no classical track
\* exists appends exactly one bare meter cell to qubit track q (after the
\* fillers of the locks drained on q), adds no lock to any of the three lock
\* lists, and leaves every bosonic and classical track unchanged.
C33_BareMeter ==
    [][\A op \in family.menu :
        (/\ status = "placing"
         /\ placed' = Append(placed, op)
         /\ op.k = "MeasureQubit"
         /\ RegistersNamed(classical_gates, op.readout) = {})
        => /\ status' = "placing"
           /\ Len(circuit_gates') = Max({Len(circuit_gates), op.qubit + 1})
           /\ OneContentAppended(IF op.qubit < Len(circuit_gates)
                                 THEN Track(circuit_gates, op.qubit) ELSE <<>>,
                                 Track(circuit_gates', op.qubit))
           /\ LastCell(Track(circuit_gates', op.qubit)) = Cell("meter", "", "", 0, NoRef)
           /\ \A t \in 0..(Len(circuit_gates) - 1) :
                  t # op.qubit => Track(circuit_gates', t) = Track(circuit_gates, t)
           /\ NoLockAdded(circuit_lock, circuit_lock')
           /\ bosonic_lock' = bosonic_lock
           /\ classical_lock' = classical_lock
           /\ bosonic_gates' = bosonic_gates
           /\ classical_gates' = classical_gates
      ]_vars

\* A bare meter was placed while another register, whose name holds the
\* measured name, and a mode track existed.
C33_Witness ==
    /\ LastPlaced
    /\ LastOp.k = "MeasureQubit"
    /\ RegistersNamed(classical_gates, LastOp.readout) = {}
    /\ RegistersNamed(classical_gates, "ro2") # {}
    /\ LastCell(Track(circuit_gates, LastOp.qubit)) = Cell("meter", "", "", 0, NoRef)
    /\ bosonic_gates # <<>>

\* C34: InputBit appends one content cell to the classical track of the
\* register whose defined name equals the operation's name, and appends
\* nothing to any track when no register with exactly that name has been
\* defined; MeasureQubit and InputBit select the same track for the same name.
C34_InputBitByName ==
    [][\A op \in family.menu :
        (/\ status = "placing"
         /\ placed' = Append(placed, op)
         /\ op.k = "InputBit")
        => LET named == RegistersNamed(classical_gates, op.name)
           IN  /\ status' = "placing"
               /\ \A t \in 1..Len(circuit_gates') :
                     circuit_gates'[t] =
                        IF t <= Len(circuit_gates) THEN circuit_gates[t] ELSE <<>>
               /\ bosonic_gates' = bosonic_gates
               /\ IF named = {}
                  THEN classical_gates' = classical_gates
                  ELSE classical_gates' =
                          Push(classical_gates, find_register(classical_gates, op.name),
                               Cell("gate", "InputBit", "", op.index, NoRef))
      ]_vars

(***************************************************************************)
(* PragmaRepeatedMeasurement as a bracket group.                           *)
(***************************************************************************)
\* C35: PragmaRepeatedMeasurement is one bracket group whose body is one
\* measurement per listed qubit, and the width its bracket declares (the
\* literal 1) is the number of columns the body adds to the widest track of
\* the span, whether register "ro" is defined or not.
C35_RepeatWidth ==
    [][\A op \in family.menu :
        (/\ status = "placing" /\ status' = "placing"
         /\ placed' = Append(placed, op)
         /\ op.k = "PragmaRepeatedMeasurement")
        => LET p == preamble(Current, op)
               sliced == prepare_for_slice(p)
               qubits == group_qubits(sliced, op)
               open == group_open(p, op, group_cell(op, qubits))
               body == run_circuit(open, group_body(sliced, op))
               at == Len(Track(open.circuit_gates, Head(qubits)))
               cell == Track(circuit_gates', Head(qubits))[at]
           IN  /\ cell.k = "gategroup" /\ cell.lbl = "Repeat"
               /\ cell.ref = ValueRef(Digits(ColumnsGrown(open.circuit_gates,
                                                           body.circuit_gates, qubits)))
      ]_vars

(***************************************************************************)
(* effective_len and the text of a cell.                                   *)
(***************************************************************************)
\* C36: effective_len classifies a cell by its category only: a gate cell
\* counts as one column whatever text its symbolic parameter puts into it, so
\* a rotation advances the effective length of its track by at least one (by
\* more only through the fillers of drained locks).
C36_CategoryOnly ==
    [][\A op \in family.menu :
        (/\ status = "placing"
         /\ placed' = Append(placed, op)
         /\ op.k = "RotateX")
        => /\ status' = "placing"
           /\ LastCell(Track(circuit_gates', op.qubit)).k = "gate"
           /\ effective_len(Track(circuit_gates', op.qubit))
                 >= 1 + (IF op.qubit < Len(circuit_gates)
                         THEN effective_len(Track(circuit_gates, op.qubit)) ELSE 0)
      ]_vars

(***************************************************************************)
(* What remove_identities leaves alone.                                    *)
(***************************************************************************)
\* The operations of ops that the loop body passes through its else branch.
RECURSIVE NonCancellable(_)
NonCancellable(ops) ==
    IF ops = <<>> THEN <<>>
    ELSE (IF is_unitary_gate(Head(ops)) THEN <<>> ELSE <<Head(ops)>>)
         \o NonCancellable(Tail(ops))

\* How often op occurs in ops.
Count(ops, op) == Cardinality({i \in 1..Len(ops) : ops[i] = op})

\* C37: remove_identities never changes the operations it cannot cancel: the
\* non-cancellable operations of the returned circuit are those of the input,
\* in the same order and multiplicity; every returned operation occurs in the
\* input; and what was removed are cancellable two-qubit gates, an even
\* number of each kind on each (control, target) pair, so an even number in
\* total.
C37_OthersUntouched ==
    phase = "done" =>
        /\ NonCancellable(new_circuit) = NonCancellable(input)
        /\ Range(new_circuit) \subseteq Range(input)
        /\ \A op \in Range(input) :
              /\ Count(new_circuit, op) <= Count(input, op)
              /\ (Count(input, op) - Count(new_circuit, op)) % 2 = 0
              /\ Count(new_circuit, op) < Count(input, op) =>
                     (is_unitary_gate(op) /\ op.k \in CancellableKinds)
        /\ (Len(input) - Len(new_circuit)) % 2 = 0

\* remove_identities returned for a circuit of three operations from which it
\* removed a pair of gates and kept an operation it cannot cancel.
C37_Witness ==
    /\ phase = "done"
    /\ Len(input) = 3
    /\ Len(new_circuit) = 1
    /\ ~is_unitary_gate(new_circuit[1])

====
